---- MODULE Spec2Model ----
(***************************************************************************)
(* Model of the TenyoJubaku TP/SL protection engine:                       *)
(*   internal/tpsl/manager.go    (coverage, targets, reconciler, placement)*)
(*   internal/tpsl/scheduler.go  (Start / Stop / run / runCheck)           *)
(*   internal/storage/storage.go (GetLatestPositions)                      *)
(*   internal/monitor/monitor.go (fetchAndStorePositions)                  *)
(*                                                                         *)
(* Numbers.  Sizes are integers counting 1e-9 contracts (1.0 = SizeOne).   *)
(* Prices are integers counting 1e-3 quote units (100.0 = 100000).         *)
(* Decimal strings received from the venue are TLA+ strings; ParseFloat    *)
(* maps the literals the model uses to their value.                        *)
(***************************************************************************)
EXTENDS Integers, Sequences, FiniteSets, TLC

VARIABLES
    \* ---- Manager.config: VolatilityPct in hundredths, ProfitLossRatio
    cfg,
    \* ---- coverage analyzer applied to one (position, pending orders) input
    covPos, covOrders, covOut,
    \* ---- price calculator + reconciler applied to one (position, price) input
    recPos, recCur, recOut,
    \* ---- one decision cycle: Scheduler.runCheck -> Manager.AnalyzeAndPlaceTPSL
    pc,          \* the blocking call the cycle is about to make ("idle": no cycle)
    positions,   \* the snapshot returned by storage.GetLatestPositions
    algoOrders,  \* algoOrders.Data returned by GetPendingAlgoOrders
    idx,         \* index in positions of the position being processed
    summary,     \* CoverageSummary
    cur,         \* locals of the placement in progress for positions[idx]
    outcomes,    \* per processed position: classification, legs, result
    ended,       \* how the last runCheck ended
    calls,       \* history: the gateway calls of the cycle, in order, with their replies
    \* ---- Scheduler
    run,         \* the run goroutine of the first Start: "new", "spawned", "check",
                 \* "select", "done"
    ctxDone,     \* s.ctx cancelled
    ticker,      \* s.ticker: "nil", "on", "stopped"
    tickerC,     \* ticks buffered in s.ticker.C (capacity 1)
    stopPc,      \* the caller of Stop: "idle", "cancelled", "waiting", "returned"
    stopAt,      \* history: where the cycle stood when s.cancel() was last called
    \* ---- snapshot store, position poller and decision timer on one clock
    now,         \* wall clock, in minutes
    held,        \* positions the venue account holds (GetPositions data)
    table,       \* rows of the positions table, in insertion order
    nextPoll,    \* time of the monitor's next tick
    nextCheck,   \* time of the scheduler's next runCheck
    pollErrs,    \* polls that failed so far
    lastRead,    \* what the last GetLatestPositions of a cycle returned
    closedAt,    \* history: time the account's positions were closed
    seenAfterClose, \* history: cycles since closedAt that got a non-empty snapshot
    \* ---- consecutive cycles against one venue
    prev,        \* history: inputs and gateway calls of the cycle before this one
    book,        \* the venue's live algo orders as of the start of the cycle
    book0,       \* history: the venue's live algo orders before the first cycle
    rounds,      \* cycles started so far
    \* ---- okx.Client.doRequestWithBody serving one request
    http,        \* loop position, attempt number and the responses received
    \* ---- Monitor.fetchAndStorePositions storing one poll row by row
    poll,        \* the capture timestamp, the positions still to insert, the tick
                 \* waiting in ticker.C
    \* ---- Scheduler.Start called on a scheduler that is already started
    more         \* the run goroutines and the tickers of the later Start calls

covVars == <<covPos, covOrders, covOut>>
recVars == <<recPos, recCur, recOut>>
cycleVars == <<pc, positions, algoOrders, idx, summary, cur, outcomes, ended, calls>>
schedVars == <<run, ctxDone, ticker, tickerC, stopPc, stopAt>>
staleVars == <<now, held, table, nextPoll, nextCheck, pollErrs, lastRead, closedAt, seenAfterClose>>
auxVars == <<prev, book, book0, rounds, http, poll, more>>
vars == <<cfg, auxVars, covVars, recVars, cycleVars, schedVars, staleVars>>

None == "none"

(***************************************************************************)
(* Bounds of the model.                                                    *)
(***************************************************************************)
MaxOrders == 3
\* positions in one snapshot
MaxPositions == 2
\* largest retry limit (okx.Client.maxRetries) of SpecRequest
MaxRetries == 2
\* cycles after the first one in SpecConverge
MaxRounds == 3
\* calls of Scheduler.Start on one scheduler
MaxStarts == 2

(***************************************************************************)
(* Program constants.                                                      *)
(***************************************************************************)
\* 1.0 contract in size units (1e-9)
SizeOne == 1000 * 1000 * 1000
\* manager.go:93  uncoveredSize <= 0.000001
Epsilon == 1000
\* config: volatility_pct is counted in hundredths (0.01 = 1 / VolPctDen)
VolPctDen == 100
\* config: profit_loss_ratio = 5.0
ProfitLossRatio == 5

(***************************************************************************)
(* strconv.ParseFloat on the decimal literals used by the model.           *)
(***************************************************************************)
SzLiterals == {"0.5", "1", "1.5", "2"}

SzValue(s) ==
    CASE s = "0.5" -> SizeOne \div 2
      [] s = "1"   -> SizeOne
      [] s = "1.5" -> SizeOne + SizeOne \div 2
      [] s = "2"   -> 2 * SizeOne

\* manager.go:163  strconv.ParseFloat(order.Sz, 64)
ParseSz(s) ==
    IF s \in SzLiterals THEN [err |-> FALSE, val |-> SzValue(s)]
                        ELSE [err |-> TRUE, val |-> 0]

\* 1.0 quote unit in price units (1e-3)
PxOne == 10 * 100

LastLiterals == {"94", "95", "96", "99", "100", "101", "104", "105", "106"}

LastValue(s) ==
    CASE s = "94"  -> 94 * PxOne
      [] s = "95"  -> 95 * PxOne
      [] s = "96"  -> 96 * PxOne
      [] s = "99"  -> 99 * PxOne
      [] s = "100" -> 100 * PxOne
      [] s = "101" -> 101 * PxOne
      [] s = "104" -> 104 * PxOne
      [] s = "105" -> 105 * PxOne
      [] s = "106" -> 106 * PxOne

\* manager.go:432  strconv.ParseFloat(resp.Data[0].Last, 64)
ParseLast(s) ==
    IF s \in LastLiterals THEN [err |-> FALSE, val |-> LastValue(s)]
                          ELSE [err |-> TRUE, val |-> 0]

(***************************************************************************)
(* models.Position                                                         *)
(***************************************************************************)
Pos(inst, side, size, avg, mgn) ==
    [Instrument |-> inst, PositionSide |-> side, PositionSize |-> size,
     AveragePrice |-> avg, UnrealizedPnL |-> 0, Margin |-> 0, Leverage |-> 1,
     MarginMode |-> mgn]

\* okx.AlgoOrder as returned by GetPendingAlgoOrders
Ord(inst, side, typ, st, sz, tp, sl) ==
    [InstId |-> inst, PosSide |-> side, OrdType |-> typ, State |-> st,
     Sz |-> sz, TpTriggerPx |-> tp, SlTriggerPx |-> sl]

(***************************************************************************)
(* manager.go matchesPosition                                              *)
(***************************************************************************)
\* Mutant: the lifecycle state of the order is not looked at.
matchesIgnoresState(order, position) ==
    /\ order.InstId = position.Instrument
    /\ order.PosSide = position.PositionSide
    /\ order.OrdType = "conditional"

\* Mutant: orders of the one-way position side are never matched.
matchesExceptNet(order, position) ==
    /\ order.InstId = position.Instrument
    /\ order.PosSide = position.PositionSide
    /\ order.PosSide # "net"
    /\ order.OrdType = "conditional"
    /\ order.State = "live"

matchesPosition(order, position) ==
    /\ order.InstId = position.Instrument
    /\ order.PosSide = position.PositionSide
    /\ order.OrdType = "conditional"
    /\ order.State = "live"

\* manager.go:170-171
hasTp(order) == order.TpTriggerPx # "" /\ order.TpTriggerPx # "0"
hasSl(order) == order.SlTriggerPx # "" /\ order.SlTriggerPx # "0"

\* Mutant: no comparison with the running maximum, the last matching order
\* of a kind sets the size of that kind.
CoverageStepLast(acc, order, position) ==
    IF ~matchesPosition(order, position) THEN acc
    ELSE LET p == ParseSz(order.Sz) IN
         IF p.err THEN acc
         ELSE [maxTpSize |-> IF hasTp(order) THEN p.val ELSE acc.maxTpSize,
               maxSlSize |-> IF hasSl(order) THEN p.val ELSE acc.maxSlSize,
               tpCount   |-> IF hasTp(order) THEN acc.tpCount + 1 ELSE acc.tpCount,
               slCount   |-> IF hasSl(order) THEN acc.slCount + 1 ELSE acc.slCount]

\* One iteration of the loop of analyzeCoverage (manager.go:160-190):
\* acc carries maxTpSize, maxSlSize, tpCount, slCount.
CoverageStep(acc, order, position) ==
    IF ~matchesPosition(order, position) THEN acc
    ELSE LET p == ParseSz(order.Sz) IN
         IF p.err THEN acc
         ELSE [maxTpSize |-> IF hasTp(order) /\ p.val > acc.maxTpSize
                             THEN p.val ELSE acc.maxTpSize,
               maxSlSize |-> IF hasSl(order) /\ p.val > acc.maxSlSize
                             THEN p.val ELSE acc.maxSlSize,
               tpCount   |-> IF hasTp(order) THEN acc.tpCount + 1 ELSE acc.tpCount,
               slCount   |-> IF hasSl(order) THEN acc.slCount + 1 ELSE acc.slCount]

RECURSIVE CoverageLoop(_, _, _)
CoverageLoop(acc, orders, position) ==
    IF orders = <<>> THEN acc
    ELSE CoverageLoop(CoverageStep(acc, Head(orders), position), Tail(orders), position)

\* Mutant: a single kind of order is credited as coverage.
CoveredSizeEitherKind(acc) ==
    IF acc.maxTpSize > acc.maxSlSize THEN acc.maxTpSize ELSE acc.maxSlSize

\* manager.go:194-207
CoveredSize(acc) ==
    IF acc.tpCount > 0 /\ acc.slCount > 0
    THEN IF acc.maxTpSize < acc.maxSlSize THEN acc.maxTpSize ELSE acc.maxSlSize
    ELSE 0

\* analyzeCoverage with the values it logs at manager.go:214; the function
\* returns the uncoveredSize field.
CoverageResult(position, orders) ==
    LET acc == CoverageLoop([maxTpSize |-> 0, maxSlSize |-> 0, tpCount |-> 0, slCount |-> 0],
                            orders, position)
        covered == CoveredSize(acc)
        raw == position.PositionSize - covered
    IN [maxTpSize |-> acc.maxTpSize, maxSlSize |-> acc.maxSlSize,
        tpCount |-> acc.tpCount, slCount |-> acc.slCount,
        coveredSize |-> covered,
        uncoveredSize |-> IF raw < 0 THEN 0 ELSE raw]

\* Mutant: the engine remembers the positions it got an order accepted for in
\* an earlier cycle and takes them as covered.
analyzeRemembers(position, orders) ==
    IF \E k \in 1..Len(prev.calls) :
          /\ prev.calls[k].op = "PlaceAlgoOrder" /\ prev.calls[k].kind = "ok"
          /\ prev.calls[k].req.InstId = position.Instrument
          /\ prev.calls[k].req.PosSide = position.PositionSide
    THEN 0
    ELSE CoverageResult(position, orders).uncoveredSize

analyzeCoverage(position, orders) == CoverageResult(position, orders).uncoveredSize

(***************************************************************************)
(* manager.go isLongPosition                                               *)
(***************************************************************************)
\* Mutant: the sign of the size decides the direction for every side.
isLongBySign(position) == position.PositionSize > 0

isLongPosition(position) ==
    IF position.PositionSide = "long" THEN TRUE
    ELSE IF position.PositionSide = "short" THEN FALSE
    ELSE position.PositionSize > 0

(***************************************************************************)
(* manager.go calculateTPSLPrices.  cfg.VolatilityPct counts hundredths,   *)
(* so entry * volatilityPct is entry * cfg.VolatilityPct / VolPctDen,      *)
(* exact for the entry prices of the model (multiples of VolPctDen).       *)
(***************************************************************************)
\* the reference configuration: volatility_pct 0.01, profit_loss_ratio 5.0
ConfigRef == [VolatilityPct |-> 1, ProfitLossRatio |-> ProfitLossRatio]

\* Mutant: the TP of a short position is put at the SL distance from the
\* entry, the profit-loss ratio is applied to long positions only.
calculateShortTpNoRatio(position) ==
    LET entryPrice == position.AveragePrice
        slDistance == (entryPrice * cfg.VolatilityPct) \div VolPctDen
        tpDistance == ((entryPrice * cfg.VolatilityPct) \div VolPctDen) * cfg.ProfitLossRatio
        slPrice == IF isLongPosition(position) THEN entryPrice - slDistance
                                               ELSE entryPrice + slDistance
        tpPrice == IF isLongPosition(position) THEN entryPrice + tpDistance
                                               ELSE entryPrice - slDistance
    IN IF entryPrice <= 0 THEN [err |-> TRUE, TpPrice |-> 0, SlPrice |-> 0]
       ELSE IF slPrice <= 0 \/ tpPrice <= 0 THEN [err |-> TRUE, TpPrice |-> 0, SlPrice |-> 0]
       ELSE [err |-> FALSE, TpPrice |-> tpPrice, SlPrice |-> slPrice]

\* Mutant: the computed prices are not validated, only the entry price.
calculateNoPriceCheck(position) ==
    LET entryPrice == position.AveragePrice
        slDistance == (entryPrice * cfg.VolatilityPct) \div VolPctDen
        tpDistance == ((entryPrice * cfg.VolatilityPct) \div VolPctDen) * cfg.ProfitLossRatio
        slPrice == IF isLongPosition(position) THEN entryPrice - slDistance
                                               ELSE entryPrice + slDistance
        tpPrice == IF isLongPosition(position) THEN entryPrice + tpDistance
                                               ELSE entryPrice - tpDistance
    IN IF entryPrice <= 0 THEN [err |-> TRUE, TpPrice |-> 0, SlPrice |-> 0]
       ELSE [err |-> FALSE, TpPrice |-> tpPrice, SlPrice |-> slPrice]

\* Mutant: the distances are those that move the margin, not the price, by
\* volatilityPct: they shrink with the leverage.
calculateOnMargin(position) ==
    LET entryPrice == position.AveragePrice
        slDistance == ((entryPrice * cfg.VolatilityPct) \div VolPctDen) \div position.Leverage
        tpDistance == slDistance * cfg.ProfitLossRatio
        slPrice == IF isLongPosition(position) THEN entryPrice - slDistance
                                               ELSE entryPrice + slDistance
        tpPrice == IF isLongPosition(position) THEN entryPrice + tpDistance
                                               ELSE entryPrice - tpDistance
    IN IF entryPrice <= 0 THEN [err |-> TRUE, TpPrice |-> 0, SlPrice |-> 0]
       ELSE IF slPrice <= 0 \/ tpPrice <= 0 THEN [err |-> TRUE, TpPrice |-> 0, SlPrice |-> 0]
       ELSE [err |-> FALSE, TpPrice |-> tpPrice, SlPrice |-> slPrice]

\* Mutant: the two directions are exchanged, the targets of a long position
\* are computed as those of a short one and the other way round.
calculateDirectionInverted(position) ==
    LET entryPrice == position.AveragePrice
        slDistance == (entryPrice * cfg.VolatilityPct) \div VolPctDen
        tpDistance == ((entryPrice * cfg.VolatilityPct) \div VolPctDen) * cfg.ProfitLossRatio
        slPrice == IF isLongPosition(position) THEN entryPrice + slDistance
                                               ELSE entryPrice - slDistance
        tpPrice == IF isLongPosition(position) THEN entryPrice - tpDistance
                                               ELSE entryPrice + tpDistance
    IN IF entryPrice <= 0 THEN [err |-> TRUE, TpPrice |-> 0, SlPrice |-> 0]
       ELSE IF slPrice <= 0 \/ tpPrice <= 0 THEN [err |-> TRUE, TpPrice |-> 0, SlPrice |-> 0]
       ELSE [err |-> FALSE, TpPrice |-> tpPrice, SlPrice |-> slPrice]

calculateTPSLPrices(position) ==
    LET entryPrice == position.AveragePrice
        slDistance == (entryPrice * cfg.VolatilityPct) \div VolPctDen
        tpDistance == ((entryPrice * cfg.VolatilityPct) \div VolPctDen) * cfg.ProfitLossRatio
        slPrice == IF isLongPosition(position) THEN entryPrice - slDistance
                                               ELSE entryPrice + slDistance
        tpPrice == IF isLongPosition(position) THEN entryPrice + tpDistance
                                               ELSE entryPrice - tpDistance
    IN IF entryPrice <= 0 THEN [err |-> TRUE, TpPrice |-> 0, SlPrice |-> 0]
       ELSE IF slPrice <= 0 \/ tpPrice <= 0 THEN [err |-> TRUE, TpPrice |-> 0, SlPrice |-> 0]
       ELSE [err |-> FALSE, TpPrice |-> tpPrice, SlPrice |-> slPrice]

\* currentPrice * 1.001 and currentPrice * 0.999 (manager.go:474,487,503,516);
\* exact for whole-unit prices (multiples of PxOne).
Above(currentPrice) == (currentPrice * 1001) \div 1000
Below(currentPrice) == (currentPrice * 999) \div 1000

\* Mutant: a passed target is replaced by the current price itself, no buffer.
adjustNoBuffer(position, prices, currentPrice) ==
    IF isLongPosition(position)
    THEN [TpPrice |-> IF currentPrice >= prices.TpPrice THEN currentPrice ELSE prices.TpPrice,
          SlPrice |-> IF currentPrice <= prices.SlPrice THEN currentPrice ELSE prices.SlPrice,
          skipTP |-> FALSE, skipSL |-> FALSE]
    ELSE [TpPrice |-> IF currentPrice <= prices.TpPrice THEN currentPrice ELSE prices.TpPrice,
          SlPrice |-> IF currentPrice >= prices.SlPrice THEN currentPrice ELSE prices.SlPrice,
          skipTP |-> FALSE, skipSL |-> FALSE]

\* Mutant: strict comparisons, a target equal to the current price is kept.
adjustStrictComparison(position, prices, currentPrice) ==
    IF isLongPosition(position)
    THEN [TpPrice |-> IF currentPrice > prices.TpPrice THEN Above(currentPrice)
                                                       ELSE prices.TpPrice,
          SlPrice |-> IF currentPrice < prices.SlPrice THEN Below(currentPrice)
                                                       ELSE prices.SlPrice,
          skipTP |-> FALSE, skipSL |-> FALSE]
    ELSE [TpPrice |-> IF currentPrice < prices.TpPrice THEN Below(currentPrice)
                                                       ELSE prices.TpPrice,
          SlPrice |-> IF currentPrice > prices.SlPrice THEN Above(currentPrice)
                                                       ELSE prices.SlPrice,
          skipTP |-> FALSE, skipSL |-> FALSE]

\* Mutant: a leg whose target the price has reached is marked skipped
\* instead of being moved next to the current price.
adjustSkipsPassedLeg(position, prices, currentPrice) ==
    IF isLongPosition(position)
    THEN [TpPrice |-> prices.TpPrice, SlPrice |-> prices.SlPrice,
          skipTP |-> currentPrice >= prices.TpPrice, skipSL |-> currentPrice <= prices.SlPrice]
    ELSE [TpPrice |-> prices.TpPrice, SlPrice |-> prices.SlPrice,
          skipTP |-> currentPrice <= prices.TpPrice, skipSL |-> currentPrice >= prices.SlPrice]

(***************************************************************************)
(* manager.go adjustTPSLPricesWithCurrentPrice                             *)
(***************************************************************************)
adjustTPSLPricesWithCurrentPrice(position, prices, currentPrice) ==
    IF isLongPosition(position)
    THEN [TpPrice |-> IF currentPrice >= prices.TpPrice THEN Above(currentPrice)
                                                        ELSE prices.TpPrice,
          SlPrice |-> IF currentPrice <= prices.SlPrice THEN Below(currentPrice)
                                                        ELSE prices.SlPrice,
          skipTP |-> FALSE, skipSL |-> FALSE]
    ELSE [TpPrice |-> IF currentPrice <= prices.TpPrice THEN Below(currentPrice)
                                                        ELSE prices.TpPrice,
          SlPrice |-> IF currentPrice >= prices.SlPrice THEN Above(currentPrice)
                                                        ELSE prices.SlPrice,
          skipTP |-> FALSE, skipSL |-> FALSE]

(***************************************************************************)
(* manager.go formatFloat: strconv.FormatFloat(f, 'f', 8, 64) with trailing *)
(* zeros trimmed.  A size (1e-9 units) is rounded to the nearest 1e-8; a   *)
(* price (1e-3 units) has at most 3 decimals and is printed exactly.       *)
(***************************************************************************)
formatSz(v) == ((v + 5) \div 10) * 10
formatPx(v) == v

\* A decimal string field of okx.AlgoOrderRequest: omitted, or a number.
Empty == [set |-> FALSE, val |-> 0]
Field(v) == [set |-> TRUE, val |-> v]

NoReq ==
    [InstId |-> "", TdMode |-> "", Side |-> "", PosSide |-> "", OrdType |-> "",
     Sz |-> Empty, TpTriggerPx |-> Empty, TpOrdPx |-> "", TpTriggerPxType |-> "",
     SlTriggerPx |-> Empty, SlOrdPx |-> "", SlTriggerPxType |-> "", ReduceOnly |-> FALSE]

\* Mutant: the order is put on the opening side of the position.
orderSideOpening(position) == IF isLongPosition(position) THEN "buy" ELSE "sell"

\* manager.go:562-568 / 660-666
orderSide(position) == IF isLongPosition(position) THEN "sell" ELSE "buy"

\* manager.go:577-580 / 671-674
tdMode(position) == IF position.MarginMode = "" THEN "cross" ELSE position.MarginMode

\* Mutant: the TP request also carries the entry price as an SL trigger.
tpReqBothTriggers(position, size, tpPrice) ==
    [InstId |-> position.Instrument, TdMode |-> tdMode(position),
     Side |-> orderSide(position), PosSide |-> position.PositionSide,
     OrdType |-> "conditional", Sz |-> Field(formatSz(size)),
     TpTriggerPx |-> Field(formatPx(tpPrice)), TpOrdPx |-> "-1", TpTriggerPxType |-> "last",
     SlTriggerPx |-> Field(formatPx(position.AveragePrice)), SlOrdPx |-> "-1",
     SlTriggerPxType |-> "last", ReduceOnly |-> TRUE]

\* manager.go:584-595 / 677-688
tpReq(position, size, tpPrice) ==
    [InstId |-> position.Instrument, TdMode |-> tdMode(position),
     Side |-> orderSide(position), PosSide |-> position.PositionSide,
     OrdType |-> "conditional", Sz |-> Field(formatSz(size)),
     TpTriggerPx |-> Field(formatPx(tpPrice)), TpOrdPx |-> "-1", TpTriggerPxType |-> "last",
     SlTriggerPx |-> Empty, SlOrdPx |-> "", SlTriggerPxType |-> "", ReduceOnly |-> TRUE]

\* Mutant: the SL request is sized with the whole position, not the
\* uncovered part.
slReqFullSize(position, size, slPrice) ==
    [InstId |-> position.Instrument, TdMode |-> tdMode(position),
     Side |-> orderSide(position), PosSide |-> position.PositionSide,
     OrdType |-> "conditional", Sz |-> Field(formatSz(position.PositionSize)),
     TpTriggerPx |-> Empty, TpOrdPx |-> "", TpTriggerPxType |-> "",
     SlTriggerPx |-> Field(formatPx(slPrice)), SlOrdPx |-> "-1", SlTriggerPxType |-> "last",
     ReduceOnly |-> TRUE]

\* manager.go:615-626 / 702-713
slReq(position, size, slPrice) ==
    [InstId |-> position.Instrument, TdMode |-> tdMode(position),
     Side |-> orderSide(position), PosSide |-> position.PositionSide,
     OrdType |-> "conditional", Sz |-> Field(formatSz(size)),
     TpTriggerPx |-> Empty, TpOrdPx |-> "", TpTriggerPxType |-> "",
     SlTriggerPx |-> Field(formatPx(slPrice)), SlOrdPx |-> "-1", SlTriggerPxType |-> "last",
     ReduceOnly |-> TRUE]

\* manager.go getCurrentMarketPrice on a GetTicker reply
getCurrentMarketPrice(reply) ==
    IF reply.kind = "err" THEN [err |-> TRUE, val |-> 0]
    ELSE IF reply.kind = "noData" THEN [err |-> TRUE, val |-> 0]
    ELSE ParseLast(reply.last)

ZeroSummary ==
    [TotalChecked |-> 0, FullyCovered |-> 0, PartiallyCovered |-> 0,
     NotCovered |-> 0, OrdersPlaced |-> 0, PlacementFailures |-> 0]

ZeroPrices == [TpPrice |-> 0, SlPrice |-> 0]

NoCur ==
    [class |-> "none", uncovered |-> 0, targets |-> ZeroPrices, prices |-> ZeroPrices,
     path |-> "none", tp |-> "none", sl |-> "none", tpAlgoId |-> FALSE, req |-> NoReq,
     skipTP |-> FALSE, skipSL |-> FALSE]

Outcome(c, result) ==
    [class |-> c.class, result |-> result, path |-> c.path, tp |-> c.tp, sl |-> c.sl]

(***************************************************************************)
(* The loop of AnalyzeAndPlaceTPSL (manager.go:87-127) from position i up  *)
(* to the next blocking gateway call: coverage analysis, classification    *)
(* and target calculation are local.  Returns the loop state at the        *)
(* GetTicker call of the next position that needs placement ("ticker"),    *)
(* or at the end of the loop ("idle").                                     *)
(***************************************************************************)
RECURSIVE Advance(_, _, _, _, _)
Advance(ps, orders, i, sm, outs) ==
    IF i > Len(ps)
    THEN [pc |-> "idle", idx |-> i, summary |-> sm, outcomes |-> outs, cur |-> NoCur]
    ELSE LET position == ps[i]
             uncoveredSize == analyzeCoverage(position, orders)
             s1 == [sm EXCEPT !.TotalChecked = @ + 1]
         IN IF uncoveredSize <= Epsilon
            THEN Advance(ps, orders, i + 1, [s1 EXCEPT !.FullyCovered = @ + 1],
                         Append(outs, Outcome([NoCur EXCEPT !.class = "full"], "covered")))
            ELSE LET partial == uncoveredSize < position.PositionSize
                     s2 == IF partial THEN [s1 EXCEPT !.PartiallyCovered = @ + 1]
                                      ELSE [s1 EXCEPT !.NotCovered = @ + 1]
                     c == [NoCur EXCEPT !.class = IF partial THEN "partial" ELSE "uncovered",
                                        !.uncovered = uncoveredSize]
                     prices == calculateTPSLPrices(position)
                 IN IF prices.err
                    THEN Advance(ps, orders, i + 1, [s2 EXCEPT !.PlacementFailures = @ + 1],
                                 Append(outs, Outcome(c, "calcFailed")))
                    ELSE [pc |-> "ticker", idx |-> i, summary |-> s2, outcomes |-> outs,
                          cur |-> [c EXCEPT !.targets = [TpPrice |-> prices.TpPrice,
                                                         SlPrice |-> prices.SlPrice]]]

\* Mutant: a cycle that ends with an error or a panic ends the run goroutine.
EndCheckExitsOnFailure(how) ==
    /\ pc' = "idle"
    /\ ended' = how
    /\ run' = IF how = "summary" THEN "select" ELSE "done"

\* runCheck returns to run(), which blocks in its select (scheduler.go:90-96).
EndCheck(how) ==
    /\ pc' = "idle"
    /\ ended' = how
    /\ run' = "select"

\* The loop state a computed by Advance becomes the state of the cycle.
Continue(a) ==
    /\ idx' = a.idx
    /\ summary' = a.summary
    /\ outcomes' = a.outcomes
    /\ cur' = a.cur
    /\ IF a.pc = "idle" THEN EndCheck("summary")
                        ELSE pc' = a.pc /\ UNCHANGED <<ended, run>>

\* Mutant: a placement error is returned from AnalyzeAndPlaceTPSL instead of
\* continuing with the next position.
PositionFailedAborts(c) ==
    /\ idx' = idx
    /\ summary' = [summary EXCEPT !.PlacementFailures = @ + 1]
    /\ outcomes' = Append(outcomes, Outcome(c, "failed"))
    /\ cur' = NoCur
    /\ EndCheck("summary")

\* placeTPSLOrderWithValidation / placeTPSLOrderOriginal returned err for
\* positions[idx]: manager.go:120-124, then the next loop iterations.
PositionFailed(c) ==
    Continue(Advance(positions, algoOrders, idx + 1,
                     [summary EXCEPT !.PlacementFailures = @ + 1],
                     Append(outcomes, Outcome(c, "failed"))))

\* Mutant: OrdersPlaced counts the orders accepted for the position, one per
\* leg, instead of the position.
PositionPlacedPerLeg(c) ==
    Continue(Advance(positions, algoOrders, idx + 1,
                     [summary EXCEPT !.OrdersPlaced =
                          @ + (IF c.tp = "placed" THEN 1 ELSE 0) + (IF c.sl = "placed" THEN 1 ELSE 0)],
                     Append(outcomes, Outcome(c, "placed"))))

\* ... returned nil: manager.go:126, then the next loop iterations.
PositionPlaced(c) ==
    Continue(Advance(positions, algoOrders, idx + 1,
                     [summary EXCEPT !.OrdersPlaced = @ + 1],
                     Append(outcomes, Outcome(c, "placed"))))

\* The gateway call op made for positions[idx] with request req has returned
\* (kind, last): it is appended to the history of the cycle.
Called(op, req, kind, last) ==
    calls' = Append(calls, [op |-> op, idx |-> idx, req |-> req, kind |-> kind, last |-> last])

\* runCheck up to its first blocking call (scheduler.go:103-114).
BeginCheck ==
    /\ pc' = "storage"
    /\ positions' = <<>>
    /\ algoOrders' = <<>>
    /\ idx' = 0
    /\ summary' = ZeroSummary
    /\ cur' = NoCur
    /\ outcomes' = <<>>
    /\ ended' = "none"
    /\ calls' = <<>>
    /\ run' = "check"

\* unnamed/part_008 GetLatestPositions scans nine columns; margin_mode is not
\* among them, so MarginMode keeps its zero value.
ScanRow(row) == [row EXCEPT !.MarginMode = ""]
ScanRows(rows) == [i \in 1..Len(rows) |-> ScanRow(rows[i])]

\* s.storage.GetLatestPositions() returns; scheduler.go:114-127 and
\* manager.go:67-79 up to the GetPendingAlgoOrders call.
\* held records the positions as the venue reported them to the monitor
\* (okx.Position with MgnMode, monitor.go:261-326), of which the stored rows
\* are the copy that GetLatestPositions scans.
GetLatestPositionsReturns(reply) ==
    /\ pc = "storage"
    /\ IF reply.err
       THEN /\ EndCheck("storageErr")
            /\ UNCHANGED <<positions, summary, held>>
       ELSE /\ positions' = ScanRows(reply.rows)
            /\ held' = reply.rows
            /\ summary' = ZeroSummary
            /\ IF reply.rows = <<>> THEN EndCheck("summary")
                                    ELSE pc' = "pending" /\ UNCHANGED <<ended, run>>
    /\ UNCHANGED <<algoOrders, idx, cur, outcomes, calls, ctxDone, ticker, tickerC, stopPc, stopAt, cfg, auxVars, covVars, recVars>>
    /\ UNCHANGED <<now, table, nextPoll, nextCheck, pollErrs, lastRead, closedAt, seenAfterClose>>

\* Mutant: a failed fetch of the pending orders is taken as an empty list.
GetPendingFailureAsEmpty(reply) ==
    /\ pc = "pending"
    /\ Called("GetPendingAlgoOrders", NoReq, IF reply.err THEN "err" ELSE "data", "")
    /\ IF reply.err
       THEN /\ algoOrders' = <<>>
            /\ Continue(Advance(positions, <<>>, 1, summary, outcomes))
       ELSE /\ algoOrders' = reply.data
            /\ Continue(Advance(positions, reply.data, 1, summary, outcomes))
    /\ UNCHANGED <<positions, ctxDone, ticker, tickerC, stopPc, stopAt, cfg, auxVars, covVars, recVars, staleVars>>

\* m.okxClient.GetPendingAlgoOrders("conditional") returns; manager.go:79-127
\* up to the next blocking call.
GetPendingAlgoOrdersReturns(reply) ==
    /\ pc = "pending"
    /\ Called("GetPendingAlgoOrders", NoReq, IF reply.err THEN "err" ELSE "data", "")
    /\ IF reply.err
       THEN /\ EndCheck("pendingErr")
            /\ UNCHANGED <<algoOrders, idx, summary, cur, outcomes>>
       ELSE /\ algoOrders' = reply.data
            /\ Continue(Advance(positions, reply.data, 1, summary, outcomes))
    /\ UNCHANGED <<positions, ctxDone, ticker, tickerC, stopPc, stopAt, cfg, auxVars, covVars, recVars, staleVars>>

\* placeTPSLOrderWithValidation with a current price (manager.go:557-599):
\* reconcile, then go to the first leg that is not skipped; with both legs
\* skipped the placement fails (manager.go:648-650).
PlaceValidated(currentPrice) ==
    LET adj == adjustTPSLPricesWithCurrentPrice(positions[idx], cur.targets, currentPrice)
        c == [cur EXCEPT !.path = "validated",
                         !.prices = [TpPrice |-> adj.TpPrice, SlPrice |-> adj.SlPrice],
                         !.skipTP = adj.skipTP, !.skipSL = adj.skipSL]
    IN IF ~adj.skipTP
       THEN /\ cur' = [c EXCEPT !.req = tpReq(positions[idx], cur.uncovered, adj.TpPrice)]
            /\ pc' = "tp"
            /\ UNCHANGED <<idx, summary, outcomes, ended, run>>
       ELSE IF ~adj.skipSL
       THEN /\ cur' = [c EXCEPT !.tp = "skipped",
                                !.req = slReq(positions[idx], cur.uncovered, adj.SlPrice)]
            /\ pc' = "sl"
            /\ UNCHANGED <<idx, summary, outcomes, ended, run>>
       ELSE PositionFailed([c EXCEPT !.tp = "skipped", !.sl = "skipped"])

\* Mutant: a failed price fetch fails the position instead of placing with
\* the calculated targets.
GetTickerFailureSkips(reply) ==
    /\ pc = "ticker"
    /\ Called("GetTicker", NoReq, reply.kind, reply.last)
    /\ LET p == getCurrentMarketPrice(reply) IN
       IF p.err
       THEN PositionFailed(cur)
       ELSE PlaceValidated(p.val)
    /\ UNCHANGED <<positions, algoOrders, ctxDone, ticker, tickerC, stopPc, stopAt, cfg, auxVars, covVars, recVars, staleVars>>

\* m.okxClient.GetTicker(position.Instrument) returns; manager.go:551-599 up
\* to the first PlaceAlgoOrder call of either placement function.
GetTickerReturns(reply) ==
    /\ pc = "ticker"
    /\ Called("GetTicker", NoReq, reply.kind, reply.last)
    /\ LET p == getCurrentMarketPrice(reply) IN
       IF p.err
       THEN /\ pc' = "tpOrig"
            /\ cur' = [cur EXCEPT !.path = "original", !.prices = cur.targets,
                                  !.req = tpReq(positions[idx], cur.uncovered, cur.targets.TpPrice)]
            /\ UNCHANGED <<idx, summary, outcomes, ended, run>>
       ELSE PlaceValidated(p.val)
    /\ UNCHANGED <<positions, algoOrders, ctxDone, ticker, tickerC, stopPc, stopAt, cfg, auxVars, covVars, recVars, staleVars>>

\* PlaceAlgoOrder(tpReq) returns in placeTPSLOrderWithValidation; manager.go:599-630.
PlaceTPReturns(reply) ==
    /\ pc = "tp"
    /\ Called("PlaceAlgoOrder", cur.req, reply, "")
    /\ IF reply = "err"
       THEN /\ PositionFailed([cur EXCEPT !.tp = "failed"])
            /\ UNCHANGED <<positions, algoOrders>>
       ELSE IF cur.skipSL
       THEN /\ PositionPlaced([cur EXCEPT !.tp = "placed", !.tpAlgoId = (reply = "ok"),
                                          !.sl = "skipped"])
            /\ UNCHANGED <<positions, algoOrders>>
       ELSE /\ cur' = [cur EXCEPT !.tp = "placed", !.tpAlgoId = (reply = "ok"),
                                  !.req = slReq(positions[idx], cur.uncovered, cur.prices.SlPrice)]
            /\ pc' = "sl"
            /\ UNCHANGED <<positions, algoOrders, idx, summary, outcomes, ended, run>>
    /\ UNCHANGED <<ctxDone, ticker, tickerC, stopPc, stopAt, cfg, auxVars, covVars, recVars, staleVars>>

\* Mutant: a refused SL placement is re-sent once within the same cycle.
PlaceSLRetriesOnce(reply) ==
    /\ pc = "sl"
    /\ Called("PlaceAlgoOrder", cur.req, reply, "")
    /\ IF reply = "err" /\ cur.sl = "none"
       THEN /\ cur' = [cur EXCEPT !.sl = "retrying"]
            /\ UNCHANGED <<pc, idx, summary, outcomes, ended, run>>
       ELSE IF reply = "err" THEN PositionFailed([cur EXCEPT !.sl = "failed"])
                             ELSE PositionPlaced([cur EXCEPT !.sl = "placed"])
    /\ UNCHANGED <<positions, algoOrders, ctxDone, ticker, tickerC, stopPc, stopAt, cfg, auxVars, covVars, recVars, staleVars>>

\* Mutant: a failed SL placement is swallowed and the position counted as placed.
PlaceSLSwallowsFailure(reply) ==
    /\ pc = "sl"
    /\ Called("PlaceAlgoOrder", cur.req, reply, "")
    /\ PositionPlaced([cur EXCEPT !.sl = IF reply = "err" THEN "failed" ELSE "placed"])
    /\ UNCHANGED <<positions, algoOrders, ctxDone, ticker, tickerC, stopPc, stopAt, cfg, auxVars, covVars, recVars, staleVars>>

\* PlaceAlgoOrder(slReq) returns in placeTPSLOrderWithValidation; manager.go:630-652.
PlaceSLReturns(reply) ==
    /\ pc = "sl"
    /\ Called("PlaceAlgoOrder", cur.req, reply, "")
    /\ IF reply = "err" THEN PositionFailed([cur EXCEPT !.sl = "failed"])
                        ELSE PositionPlaced([cur EXCEPT !.sl = "placed"])
    /\ UNCHANGED <<positions, algoOrders, ctxDone, ticker, tickerC, stopPc, stopAt, cfg, auxVars, covVars, recVars, staleVars>>

\* PlaceAlgoOrder(tpReq) returns in placeTPSLOrderOriginal; manager.go:690-715.
PlaceTPOriginalReturns(reply) ==
    /\ pc = "tpOrig"
    /\ Called("PlaceAlgoOrder", cur.req, reply, "")
    /\ IF reply = "err"
       THEN /\ PositionFailed([cur EXCEPT !.tp = "failed"])
            /\ UNCHANGED <<positions, algoOrders>>
       ELSE /\ cur' = [cur EXCEPT !.tp = "placed", !.tpAlgoId = (reply = "ok"),
                                  !.req = slReq(positions[idx], cur.uncovered, cur.targets.SlPrice)]
            /\ pc' = "slOrig"
            /\ UNCHANGED <<positions, algoOrders, idx, summary, outcomes, ended, run>>
    /\ UNCHANGED <<ctxDone, ticker, tickerC, stopPc, stopAt, cfg, auxVars, covVars, recVars, staleVars>>

\* PlaceAlgoOrder(slReq) returns in placeTPSLOrderOriginal; manager.go:715-724.
PlaceSLOriginalReturns(reply) ==
    /\ pc = "slOrig"
    /\ Called("PlaceAlgoOrder", cur.req, reply, "")
    /\ IF reply = "err" THEN PositionFailed([cur EXCEPT !.sl = "failed"])
                        ELSE PositionPlaced([cur EXCEPT !.sl = "placed"])
    /\ UNCHANGED <<positions, algoOrders, ctxDone, ticker, tickerC, stopPc, stopAt, cfg, auxVars, covVars, recVars, staleVars>>

\* A gateway call made for positions[idx] panics.  The panic unwinds
\* AnalyzeAndPlaceTPSL and is recovered by the deferred function of runCheck
\* (scheduler.go:105-109), which then returns.
PanicInPosition ==
    /\ pc \in {"ticker", "tp", "sl", "tpOrig", "slOrig"}
    /\ Called(IF pc = "ticker" THEN "GetTicker" ELSE "PlaceAlgoOrder", cur.req, "panic", "")
    /\ outcomes' = Append(outcomes, Outcome(cur, "panic"))
    /\ cur' = NoCur
    /\ EndCheck("panic")
    /\ UNCHANGED <<positions, algoOrders, idx, summary, ctxDone, ticker, tickerC, stopPc, stopAt,
                   cfg, auxVars, covVars, recVars, staleVars>>

(***************************************************************************)
(* scheduler.go                                                            *)
(***************************************************************************)
\* A goroutine that waits in the select of run() keeps the channel it read
\* from s.ticker when it entered the select.  lis = 0 stands for the ticker
\* that is in s.ticker, lis = k > 0 for the replaced ticker more.old[k].
KeepListening(g, k) ==
    IF g.run = "select" /\ g.lis = 0 THEN [g EXCEPT !.lis = k] ELSE g

\* Start on the caller's goroutine (scheduler.go:58-65): s.ticker is set to
\* a new ticker and a run goroutine is created; the goroutine has not run
\* yet.  Nothing keeps Start from being called on a started scheduler: the
\* ticker it replaces is not stopped and a further run goroutine is created.
Start ==
    /\ ticker' = "on"
    /\ tickerC' = 0
    /\ IF run = "new"
       THEN /\ run' = "spawned"
            /\ more' = more
       ELSE /\ run' = run
            /\ LET k == Len(more.old) + 1 IN
               more' = [more EXCEPT
                          !.gs = Append([i \in 1..Len(more.gs) |-> KeepListening(more.gs[i], k)],
                                        [run |-> "spawned", lis |-> 0]),
                          !.old = Append(more.old, [on |-> ticker = "on", c |-> tickerC]),
                          !.lis1 = IF run = "select" /\ more.lis1 = 0 THEN k ELSE more.lis1]
    /\ UNCHANGED <<cycleVars, ctxDone, stopPc, stopAt, cfg, prev, book, book0, rounds, http, poll,
                   covVars, recVars, staleVars>>

\* The run goroutine created by the first Start is scheduled: run() calls
\* runCheck at once, whether or not the context is cancelled (scheduler.go:83-87).
RunBegins ==
    /\ run = "spawned"
    /\ BeginCheck
    /\ UNCHANGED <<ctxDone, ticker, tickerC, stopPc, stopAt, cfg, auxVars, covVars, recVars, staleVars>>

\* The runtime delivers a tick; time.Ticker drops it when one is buffered.
Tick ==
    /\ ticker = "on"
    /\ tickerC = 0
    /\ tickerC' = 1
    /\ UNCHANGED <<cycleVars, run, ctxDone, ticker, stopPc, stopAt, cfg, auxVars, covVars, recVars, staleVars>>

\* Mutant: every tick starts a check of its own, whatever the loop is doing.
SelectTickAnytime ==
    /\ tickerC = 1
    /\ tickerC' = 0
    /\ BeginCheck
    /\ UNCHANGED <<ctxDone, ticker, stopPc, stopAt, cfg, auxVars, covVars, recVars, staleVars>>

\* run: case <-s.ticker.C: s.runCheck() (scheduler.go:94-95)
SelectTick ==
    /\ run = "select"
    /\ more.lis1 = 0
    /\ tickerC = 1
    /\ tickerC' = 0
    /\ BeginCheck
    /\ UNCHANGED <<ctxDone, ticker, stopPc, stopAt, cfg, auxVars, covVars, recVars, staleVars>>

\* s.done has been closed by a run goroutine that returned
DoneClosed == run = "done" \/ \E i \in 1..Len(more.gs) : more.gs[i].run = "done"

\* run: case <-s.ctx.Done(): return, and the deferred close(s.done)
\* (scheduler.go:84,92-93).  Closing the channel a second time panics
\* outside any recover: the process ends.
SelectDone ==
    /\ run = "select"
    /\ ctxDone
    /\ run' = "done"
    /\ more' = [more EXCEPT !.crashed = DoneClosed]
    /\ UNCHANGED <<cycleVars, ctxDone, ticker, tickerC, stopPc, stopAt, cfg,
                   prev, book, book0, rounds, http, poll, covVars, recVars, staleVars>>

\* Stop: s.cancel() (scheduler.go:71-72)
StopCancel ==
    /\ stopPc \in {"idle", "returned"}
    /\ ctxDone' = TRUE
    /\ stopPc' = "cancelled"
    /\ stopAt' = pc
    /\ UNCHANGED <<cycleVars, run, ticker, tickerC, cfg, auxVars, covVars, recVars, staleVars>>

\* Stop: if s.ticker != nil { s.ticker.Stop() } (scheduler.go:73-75)
StopTicker ==
    /\ stopPc = "cancelled"
    /\ ticker' = IF ticker = "nil" THEN "nil" ELSE "stopped"
    /\ stopPc' = "waiting"
    /\ UNCHANGED <<cycleVars, run, ctxDone, tickerC, stopAt, cfg, auxVars, covVars, recVars, staleVars>>

\* Mutant: Stop returns without waiting for the run goroutine.
StopReturnsNoWait ==
    /\ stopPc = "waiting"
    /\ stopPc' = "returned"
    /\ UNCHANGED <<cycleVars, run, ctxDone, ticker, tickerC, stopAt, cfg, auxVars, covVars, recVars, staleVars>>

\* Stop: <-s.done, then return (scheduler.go:76-78)
StopReturns ==
    /\ stopPc = "waiting"
    /\ DoneClosed
    /\ stopPc' = "returned"
    /\ UNCHANGED <<cycleVars, run, ctxDone, ticker, tickerC, stopAt, cfg, auxVars, covVars, recVars, staleVars>>

CycleOff ==
    /\ pc = "idle"
    /\ positions = <<>>
    /\ algoOrders = <<>>
    /\ idx = 0
    /\ summary = ZeroSummary
    /\ cur = NoCur
    /\ outcomes = <<>>
    /\ ended = "none"
    /\ calls = <<>>

\* NewScheduler (scheduler.go:40-53)
SchedOff ==
    /\ run = "new"
    /\ ctxDone = FALSE
    /\ ticker = "nil"
    /\ tickerC = 0
    /\ stopPc = "idle"
    /\ stopAt = "never"

NoTime == 0 - 1

NoRead == [called |-> FALSE, at |-> NoTime, latest |-> NoTime, rows |-> <<>>]

NoPrev == [positions |-> <<>>, algoOrders |-> <<>>, calls |-> <<>>]

NoHttp == [pc |-> "idle", maxRetries |-> 0, attempt |-> 0, waited |-> 0,
           log |-> <<>>, result |-> "none", body |-> "none", took |-> FALSE,
           placed |-> "none"]

NoPoll == [pc |-> "idle", ts |-> NoTime, rest |-> <<>>, stop |-> FALSE, tick |-> FALSE,
           caps |-> 0, span |-> 0]

\* no Start on a started scheduler so far
NoMore == [gs |-> <<>>, old |-> <<>>, lis1 |-> 0, crashed |-> FALSE]

AuxOff ==
    /\ prev = NoPrev
    /\ book = <<>>
    /\ book0 = <<>>
    /\ rounds = 0
    /\ http = NoHttp
    /\ poll = NoPoll
    /\ more = NoMore

StaleOff ==
    /\ now = 0
    /\ held = <<>>
    /\ table = <<>>
    /\ nextPoll = 0
    /\ nextCheck = 0
    /\ pollErrs = 0
    /\ lastRead = NoRead
    /\ closedAt = NoTime
    /\ seenAfterClose = 0

(***************************************************************************)
(* Specification SpecCoverage: analyzeCoverage applied to every position   *)
(* of CovPositions and every pending-order list of at most MaxOrders       *)
(* orders drawn from CovOrderSet.                                          *)
(***************************************************************************)
CovPositions ==
    { Pos("BTC-USDT-SWAP", "long", 2 * SizeOne, 100 * PxOne, "cross"),
      Pos("BTC-USDT-SWAP", "net", SizeOne, 100 * PxOne, "isolated"),
      Pos("ETH-USDT-SWAP", "short", SizeOne, 50 * PxOne, "") }

CovOrderSet ==
    { Ord("BTC-USDT-SWAP", "long", "conditional", "live", "1", "105", ""),
      Ord("BTC-USDT-SWAP", "long", "conditional", "live", "1", "", "99"),
      Ord("BTC-USDT-SWAP", "long", "conditional", "live", "2", "105", "0"),
      Ord("BTC-USDT-SWAP", "long", "conditional", "live", "2", "0", "99"),
      Ord("BTC-USDT-SWAP", "long", "conditional", "live", "0.5", "105", "99"),
      Ord("BTC-USDT-SWAP", "long", "conditional", "live", "abc", "105", ""),
      Ord("BTC-USDT-SWAP", "long", "conditional", "canceled", "2", "105", ""),
      Ord("BTC-USDT-SWAP", "long", "oco", "live", "2", "", "99"),
      Ord("BTC-USDT-SWAP", "short", "conditional", "live", "2", "", "101"),
      Ord("BTC-USDT-SWAP", "net", "conditional", "live", "0.5", "", "99"),
      Ord("ETH-USDT-SWAP", "short", "conditional", "live", "1", "47.5", ""),
      Ord("ETH-USDT-SWAP", "short", "conditional", "live", "2", "", "50.5") }

SeqsUpTo(S, n) == UNION { [1..k -> S] : k \in 0..n }

NoCoverage == [maxTpSize |-> 0, maxSlSize |-> 0, tpCount |-> 0, slCount |-> 0,
               coveredSize |-> 0, uncoveredSize |-> 0]

CovOff ==
    /\ covPos = Pos("", "net", 0, 0, "")
    /\ covOrders = <<>>
    /\ covOut = [done |-> FALSE, r |-> NoCoverage]

RecOff ==
    /\ recPos = Pos("", "net", 0, 0, "")
    /\ recCur = 0
    /\ recOut = [done |-> FALSE, targets |-> [err |-> TRUE, TpPrice |-> 0, SlPrice |-> 0],
                 adj |-> [TpPrice |-> 0, SlPrice |-> 0, skipTP |-> FALSE, skipSL |-> FALSE]]

InitCoverage ==
    /\ cfg = ConfigRef
    /\ covPos \in CovPositions
    /\ covOrders \in SeqsUpTo(CovOrderSet, MaxOrders)
    /\ covOut = [done |-> FALSE, r |-> NoCoverage]
    /\ RecOff
    /\ CycleOff
    /\ SchedOff
    /\ StaleOff
    /\ AuxOff

\* One call of analyzeCoverage(position, algoOrders)
Analyze ==
    /\ ~covOut.done
    /\ covOut' = [done |-> TRUE, r |-> CoverageResult(covPos, covOrders)]
    /\ UNCHANGED <<cfg, auxVars, covPos, covOrders, recVars, cycleVars, schedVars, staleVars>>

NextCoverage == Analyze

SpecCoverage == InitCoverage /\ [][NextCoverage]_vars

(***************************************************************************)
(* Specification SpecClassify: SpecCoverage with the positions of          *)
(* CovPositions and positions whose size is at or below the tolerance of   *)
(* the classification.  The monitor stores every position whose size is    *)
(* not exactly zero (monitor.go:268) and the store accepts every size      *)
(* that is not negative (models.Position.Validate).                        *)
(***************************************************************************)
SmallPositions ==
    { Pos("BTC-USDT-SWAP", "long", Epsilon, 100 * PxOne, "cross"),
      Pos("BTC-USDT-SWAP", "long", Epsilon \div 2, 100 * PxOne, "cross"),
      Pos("ETH-USDT-SWAP", "short", Epsilon \div 2, 50 * PxOne, "") }

InitClassify ==
    /\ cfg = ConfigRef
    /\ covPos \in CovPositions \cup SmallPositions
    /\ covOrders \in SeqsUpTo(CovOrderSet, MaxOrders)
    /\ covOut = [done |-> FALSE, r |-> NoCoverage]
    /\ RecOff
    /\ CycleOff
    /\ SchedOff
    /\ StaleOff
    /\ AuxOff

NextClassify == Analyze

SpecClassify == InitClassify /\ [][NextClassify]_vars

(***************************************************************************)
(* Specification SpecReconcile: calculateTPSLPrices followed by            *)
(* adjustTPSLPricesWithCurrentPrice for every position of RecPositions     *)
(* and every last price of LastLiterals.                                   *)
(***************************************************************************)
RecPositions ==
    { Pos("BTC-USDT-SWAP", side, sz, avg, "cross") :
        side \in {"long", "short", "net"}, sz \in {SizeOne, 0, 0 - SizeOne},
        avg \in {100 * PxOne, 98 * PxOne} }

InitReconcile ==
    /\ cfg = ConfigRef
    /\ recPos \in RecPositions
    /\ recCur \in { LastValue(s) : s \in LastLiterals }
    /\ recOut = [done |-> FALSE, targets |-> [err |-> TRUE, TpPrice |-> 0, SlPrice |-> 0],
                 adj |-> [TpPrice |-> 0, SlPrice |-> 0, skipTP |-> FALSE, skipSL |-> FALSE]]
    /\ CovOff
    /\ CycleOff
    /\ SchedOff
    /\ StaleOff
    /\ AuxOff

\* prices := calculateTPSLPrices(position); adjustTPSLPricesWithCurrentPrice(position, prices, currentPrice)
Reconcile ==
    /\ ~recOut.done
    /\ LET t == calculateTPSLPrices(recPos) IN
         /\ ~t.err
         /\ recOut' = [done |-> TRUE, targets |-> t,
                       adj |-> adjustTPSLPricesWithCurrentPrice(recPos, t, recCur)]
    /\ UNCHANGED <<cfg, auxVars, recPos, recCur, covVars, cycleVars, schedVars, staleVars>>

NextReconcile == Reconcile

SpecReconcile == InitReconcile /\ [][NextReconcile]_vars

(***************************************************************************)
(* Specification SpecTargets: calculateTPSLPrices applied to every         *)
(* position of TargetPositions under every configuration of TargetConfigs. *)
(***************************************************************************)
\* The fields of a position that describe its account state: leverage,
\* margin and unrealized PnL (in whole units), and margin mode.
TargetAccounts ==
    { [Leverage |-> l, Margin |-> m, UnrealizedPnL |-> u, MarginMode |-> mode] :
        l \in {1, 10}, m \in {0, 25}, u \in {0 - 7, 0}, mode \in {"cross", "isolated"} }

WithAccount(position, a) ==
    [position EXCEPT !.Leverage = a.Leverage, !.Margin = a.Margin,
                     !.UnrealizedPnL = a.UnrealizedPnL, !.MarginMode = a.MarginMode]

TargetPositions ==
    { WithAccount(Pos("BTC-USDT-SWAP", side, SizeOne, avg * PxOne, "cross"), a) :
        side \in {"long", "short", "net"}, avg \in {0, 50, 100, 20000}, a \in TargetAccounts }

TargetConfigs ==
    { [VolatilityPct |-> v, ProfitLossRatio |-> r] : v \in {1, 2, 25, 100}, r \in {1, 2, 5} }

InitTargets ==
    /\ cfg \in TargetConfigs
    /\ recPos \in TargetPositions
    /\ recCur = 0
    /\ recOut = [done |-> FALSE, targets |-> [err |-> TRUE, TpPrice |-> 0, SlPrice |-> 0],
                 adj |-> [TpPrice |-> 0, SlPrice |-> 0, skipTP |-> FALSE, skipSL |-> FALSE]]
    /\ CovOff
    /\ CycleOff
    /\ SchedOff
    /\ StaleOff
    /\ AuxOff

\* prices, err := calculateTPSLPrices(position)
Calculate ==
    /\ ~recOut.done
    /\ recOut' = [recOut EXCEPT !.done = TRUE, !.targets = calculateTPSLPrices(recPos)]
    /\ UNCHANGED <<cfg, auxVars, recPos, recCur, covVars, cycleVars, schedVars, staleVars>>

NextTargets == Calculate

SpecTargets == InitTargets /\ [][NextTargets]_vars

(***************************************************************************)
(* Specification Spec: the scheduler started once and never stopped; every *)
(* cycle reads a snapshot of at most MaxPositions rows and receives every  *)
(* combination of gateway replies.                                         *)
(***************************************************************************)
StoreRows ==
    { Pos("BTC-USDT-SWAP", "long", 2 * SizeOne, 100 * PxOne, "isolated"),
      Pos("BTC-USDT-SWAP", "short", SizeOne, 100 * PxOne, "cross"),
      Pos("ETH-USDT-SWAP", "net", SizeOne, 100 * PxOne, "cross"),
      Pos("ETH-USDT-SWAP", "long", SizeOne, 0, "cross") }

InstRank(inst) == IF inst = "BTC-USDT-SWAP" THEN 1 ELSE 2

\* GetLatestPositions: ORDER BY instrument (unnamed/part_008:254); the venue
\* reports one position per instrument and side.
IsSnapshot(rows) ==
    /\ \A i \in 1..(Len(rows) - 1) : InstRank(rows[i].Instrument) <= InstRank(rows[i + 1].Instrument)
    /\ \A i, j \in 1..Len(rows) :
         (i # j) => (rows[i].Instrument # rows[j].Instrument
                     \/ rows[i].PositionSide # rows[j].PositionSide)

SnapshotsOf(rowSet) == { rows \in SeqsUpTo(rowSet, MaxPositions) : IsSnapshot(rows) }

StorageReplies(rowSet) ==
    {[err |-> TRUE, rows |-> <<>>]} \cup {[err |-> FALSE, rows |-> r] : r \in SnapshotsOf(rowSet)}

PendingLists ==
    { <<>>,
      << Ord("BTC-USDT-SWAP", "long", "conditional", "live", "2", "105", ""),
         Ord("BTC-USDT-SWAP", "long", "conditional", "live", "2", "", "99") >>,
      << Ord("BTC-USDT-SWAP", "long", "conditional", "live", "1", "105", ""),
         Ord("BTC-USDT-SWAP", "long", "conditional", "live", "1", "", "99") >>,
      << Ord("BTC-USDT-SWAP", "long", "conditional", "live", "2", "105", "") >> }

PendingReplies(lists) ==
    {[err |-> TRUE, data |-> <<>>]} \cup {[err |-> FALSE, data |-> l] : l \in lists}

TickerReplies ==
    { [kind |-> "err", last |-> ""], [kind |-> "noData", last |-> ""],
      [kind |-> "data", last |-> "abc"], [kind |-> "data", last |-> "96"],
      [kind |-> "data", last |-> "106"] }

PlaceReplies == {"ok", "okNoData", "err"}

\* configurations of the engine: the reference one, and volatility_pct 1.0,
\* with which no position has valid targets
EngineConfigs == {ConfigRef, [VolatilityPct |-> 100, ProfitLossRatio |-> ProfitLossRatio]}

Init ==
    /\ cfg \in EngineConfigs
    /\ CovOff
    /\ RecOff
    /\ CycleOff
    /\ SchedOff
    /\ StaleOff
    /\ AuxOff

Next ==
    \/ (run = "new" /\ Start)
    \/ RunBegins
    \/ Tick
    \/ SelectTick
    \/ \E reply \in StorageReplies(StoreRows) : GetLatestPositionsReturns(reply)
    \/ \E reply \in PendingReplies(PendingLists) : GetPendingAlgoOrdersReturns(reply)
    \/ \E reply \in TickerReplies : GetTickerReturns(reply)
    \/ \E reply \in PlaceReplies : PlaceTPReturns(reply)
    \/ \E reply \in PlaceReplies : PlaceSLReturns(reply)
    \/ \E reply \in PlaceReplies : PlaceTPOriginalReturns(reply)
    \/ \E reply \in PlaceReplies : PlaceSLOriginalReturns(reply)
    \/ PanicInPosition

Spec == Init /\ [][Next]_vars

(***************************************************************************)
(* Specification SpecShutdown: the scheduler with Stop called at any       *)
(* moment (before Start, during a cycle, between cycles, repeatedly).      *)
(***************************************************************************)
ShutdownRows ==
    { Pos("BTC-USDT-SWAP", "long", 2 * SizeOne, 100 * PxOne, "isolated"),
      Pos("ETH-USDT-SWAP", "net", SizeOne, 100 * PxOne, "cross") }

ShutdownTickerReplies ==
    { [kind |-> "err", last |-> ""], [kind |-> "data", last |-> "106"] }

ShutdownPlaceReplies == {"ok", "err"}

NextShutdown ==
    \/ (run = "new" /\ Start)
    \/ RunBegins
    \/ Tick
    \/ SelectTick
    \/ SelectDone
    \/ StopCancel
    \/ StopTicker
    \/ StopReturns
    \/ \E reply \in StorageReplies(ShutdownRows) : GetLatestPositionsReturns(reply)
    \/ \E reply \in PendingReplies({<<>>}) : GetPendingAlgoOrdersReturns(reply)
    \/ \E reply \in ShutdownTickerReplies : GetTickerReturns(reply)
    \/ \E reply \in ShutdownPlaceReplies : PlaceTPReturns(reply)
    \/ \E reply \in ShutdownPlaceReplies : PlaceSLReturns(reply)
    \/ \E reply \in ShutdownPlaceReplies : PlaceTPOriginalReturns(reply)
    \/ \E reply \in ShutdownPlaceReplies : PlaceSLOriginalReturns(reply)
    \/ PanicInPosition

SpecShutdown == Init /\ [][NextShutdown]_vars

\* A gateway or storage call of the running cycle returns, with some reply.
CycleStep ==
    \/ \E reply \in StorageReplies(ShutdownRows) : GetLatestPositionsReturns(reply)
    \/ \E reply \in PendingReplies({<<>>}) : GetPendingAlgoOrdersReturns(reply)
    \/ \E reply \in ShutdownTickerReplies : GetTickerReturns(reply)
    \/ \E reply \in ShutdownPlaceReplies : PlaceTPReturns(reply)
    \/ \E reply \in ShutdownPlaceReplies : PlaceSLReturns(reply)
    \/ \E reply \in ShutdownPlaceReplies : PlaceTPOriginalReturns(reply)
    \/ \E reply \in ShutdownPlaceReplies : PlaceSLOriginalReturns(reply)

\* SpecShutdown with every call of a cycle returning, the run goroutine
\* and the goroutine inside Stop being scheduled.  The select of run()
\* chooses at random among its ready cases, so the cancellation is taken
\* if it is ready again and again.  Start, Stop and the ticks are not
\* forced to happen.
SpecShutdownFair ==
    /\ SpecShutdown
    /\ WF_vars(RunBegins)
    /\ WF_vars(CycleStep)
    /\ SF_vars(SelectDone)
    /\ WF_vars(SelectTick)
    /\ WF_vars(StopTicker)
    /\ WF_vars(StopReturns)

(***************************************************************************)
(* Specification SpecRestart: Start called up to MaxStarts times on one    *)
(* scheduler, and Stop at any moment, over an empty positions table: every *)
(* runCheck consists of the one call of GetLatestPositions.  Each later    *)
(* Start leaves the earlier ticker running and adds a run goroutine; the   *)
(* goroutines share s.ctx, s.ticker and s.done.                            *)
(***************************************************************************)
StartsSoFar == (IF run = "new" THEN 0 ELSE 1) + Len(more.gs)

\* the process has not ended in the panic of a second close(s.done)
Alive == ~more.crashed

OtherVars == <<cfg, prev, book, book0, rounds, http, poll, covVars, recVars, staleVars>>

\* The runtime delivers a tick of a ticker that a later Start replaced.
TickOld(k) ==
    /\ more.old[k].on
    /\ more.old[k].c = 0
    /\ more' = [more EXCEPT !.old[k].c = 1]
    /\ UNCHANGED <<OtherVars, cycleVars, schedVars>>

\* run of the first goroutine: case <-s.ticker.C on the channel of a ticker
\* replaced while the goroutine was waiting in the select.
SelectTickOld ==
    /\ run = "select"
    /\ more.lis1 > 0
    /\ more.old[more.lis1].c = 1
    /\ BeginCheck
    /\ more' = [more EXCEPT !.old[more.lis1].c = 0, !.lis1 = 0]
    /\ UNCHANGED <<OtherVars, ctxDone, ticker, tickerC, stopPc, stopAt>>

\* The run goroutine of a later Start is scheduled and enters runCheck.
RunBeginsMore(i) ==
    /\ more.gs[i].run = "spawned"
    /\ more' = [more EXCEPT !.gs[i].run = "check"]
    /\ UNCHANGED <<OtherVars, cycleVars, schedVars>>

\* GetLatestPositions returns an error or the empty snapshot to the runCheck
\* of a later goroutine; runCheck returns and run() enters its select
\* (scheduler.go:114-127, manager.go:67-71).
GetLatestPositionsReturnsMore(i, reply) ==
    /\ more.gs[i].run = "check"
    /\ reply.err \/ reply.rows = <<>>
    /\ more' = [more EXCEPT !.gs[i] = [run |-> "select", lis |-> 0]]
    /\ UNCHANGED <<OtherVars, cycleVars, schedVars>>

\* run of a later goroutine: case <-s.ticker.C: s.runCheck()
SelectTickMore(i) ==
    /\ more.gs[i].run = "select"
    /\ LET k == more.gs[i].lis IN
       IF k = 0
       THEN /\ tickerC = 1
            /\ tickerC' = 0
            /\ more' = [more EXCEPT !.gs[i] = [run |-> "check", lis |-> 0]]
       ELSE /\ more.old[k].c = 1
            /\ tickerC' = tickerC
            /\ more' = [more EXCEPT !.gs[i] = [run |-> "check", lis |-> 0], !.old[k].c = 0]
    /\ UNCHANGED <<OtherVars, cycleVars, run, ctxDone, ticker, stopPc, stopAt>>

\* run of a later goroutine: case <-s.ctx.Done(): return, and the deferred
\* close(s.done), which panics when the channel is closed already.
SelectDoneMore(i) ==
    /\ more.gs[i].run = "select"
    /\ ctxDone
    /\ more' = [more EXCEPT !.gs[i].run = "done", !.crashed = DoneClosed]
    /\ UNCHANGED <<OtherVars, cycleVars, schedVars>>

InitRestart == Init

NextRestart ==
    \/ (Alive /\ StartsSoFar < MaxStarts /\ Start)
    \/ (Alive /\ RunBegins)
    \/ (Alive /\ Tick)
    \/ (Alive /\ SelectTick)
    \/ (Alive /\ SelectTickOld)
    \/ (Alive /\ SelectDone)
    \/ (Alive /\ StopCancel)
    \/ (Alive /\ StopTicker)
    \/ (Alive /\ StopReturns)
    \/ \E reply \in StorageReplies({}) : Alive /\ GetLatestPositionsReturns(reply)
    \/ \E k \in 1..Len(more.old) : Alive /\ TickOld(k)
    \/ \E i \in 1..Len(more.gs) : Alive /\ RunBeginsMore(i)
    \/ \E i \in 1..Len(more.gs), reply \in StorageReplies({}) :
          Alive /\ GetLatestPositionsReturnsMore(i, reply)
    \/ \E i \in 1..Len(more.gs) : Alive /\ SelectTickMore(i)
    \/ \E i \in 1..Len(more.gs) : Alive /\ SelectDoneMore(i)

SpecRestart == InitRestart /\ [][NextRestart]_vars


(***************************************************************************)
(* Specification SpecRepeat: cycle after cycle under one configuration,    *)
(* every cycle with any snapshot and any replies; prev keeps the inputs    *)
(* and the gateway calls of one earlier cycle, any one.                    *)
(***************************************************************************)
RepeatRows ==
    { Pos("BTC-USDT-SWAP", "long", 2 * SizeOne, 100 * PxOne, "isolated"),
      Pos("ETH-USDT-SWAP", "net", SizeOne, 100 * PxOne, "cross") }

RepeatPendingLists ==
    { <<>>,
      << Ord("BTC-USDT-SWAP", "long", "conditional", "live", "2", "105", ""),
         Ord("BTC-USDT-SWAP", "long", "conditional", "live", "2", "", "99") >> }

RepeatTickerReplies ==
    { [kind |-> "err", last |-> ""], [kind |-> "data", last |-> "96"],
      [kind |-> "data", last |-> "106"] }

RepeatPlaceReplies == {"ok", "err"}

\* What a cycle read and what it sent, as it stands when the cycle has ended.
CycleLog == [positions |-> positions, algoOrders |-> algoOrders, calls |-> calls]

\* SelectTick, with the cycle that has just ended kept in prev or not.
SelectTickLogged ==
    /\ run = "select"
    /\ more.lis1 = 0
    /\ tickerC = 1
    /\ tickerC' = 0
    /\ BeginCheck
    /\ prev' \in {prev, CycleLog}
    /\ UNCHANGED <<ctxDone, ticker, stopPc, stopAt, cfg, book, book0, rounds, http, poll, more,
                   covVars, recVars, staleVars>>

InitRepeat ==
    /\ cfg = ConfigRef
    /\ CovOff
    /\ RecOff
    /\ CycleOff
    /\ SchedOff
    /\ StaleOff
    /\ AuxOff

NextRepeat ==
    \/ (run = "new" /\ Start)
    \/ RunBegins
    \/ Tick
    \/ SelectTickLogged
    \/ \E reply \in StorageReplies(RepeatRows) : GetLatestPositionsReturns(reply)
    \/ \E reply \in PendingReplies(RepeatPendingLists) : GetPendingAlgoOrdersReturns(reply)
    \/ \E reply \in RepeatTickerReplies : GetTickerReturns(reply)
    \/ \E reply \in RepeatPlaceReplies : PlaceTPReturns(reply)
    \/ \E reply \in RepeatPlaceReplies : PlaceSLReturns(reply)
    \/ \E reply \in RepeatPlaceReplies : PlaceTPOriginalReturns(reply)
    \/ \E reply \in RepeatPlaceReplies : PlaceSLOriginalReturns(reply)

SpecRepeat == InitRepeat /\ [][NextRepeat]_vars

(***************************************************************************)
(* Specification SpecConverge: cycle after cycle over one unchanging       *)
(* snapshot against a venue that accepts every placement and never         *)
(* cancels or triggers an order: the orders accepted in a cycle are live   *)
(* orders of the pending list of every later cycle.  book starts as any    *)
(* list of at most two orders of ConvergeOrders.                           *)
(***************************************************************************)
ConvergeSnapshot ==
    << Pos("BTC-USDT-SWAP", "long", 2 * SizeOne, 100 * PxOne, "cross"),
       Pos("ETH-USDT-SWAP", "net", SizeOne, 100 * PxOne, "cross") >>

ConvergeOrders ==
    { Ord("BTC-USDT-SWAP", "long", "conditional", "live", "1", "105", ""),
      Ord("BTC-USDT-SWAP", "long", "conditional", "live", "1", "", "99"),
      Ord("BTC-USDT-SWAP", "long", "conditional", "live", "2", "105", ""),
      Ord("BTC-USDT-SWAP", "long", "conditional", "live", "2", "", "99") }

ConvergeTickerReplies ==
    { [kind |-> "err", last |-> ""], [kind |-> "data", last |-> "100"] }

\* The decimal strings the venue reports for a size and a trigger price.
SzString(v) == CHOOSE str \in SzLiterals : SzValue(str) = v
PxString(v) == CHOOSE str \in LastLiterals : LastValue(str) = v

\* The live order the venue holds once it has accepted the request req
\* (okx.AlgoOrderRequest -> okx.AlgoOrder, client.go:344-375 and 300-340).
VenueOrder(req) ==
    Ord(req.InstId, req.PosSide, req.OrdType, "live", SzString(req.Sz.val),
        IF req.TpTriggerPx.set THEN PxString(req.TpTriggerPx.val) ELSE "",
        IF req.SlTriggerPx.set THEN PxString(req.SlTriggerPx.val) ELSE "")

\* The orders the venue accepted in the cycle whose calls are cs, in order.
Accepted(cs) ==
    LET placed == SelectSeq(cs, LAMBDA c : c.op = "PlaceAlgoOrder" /\ c.kind # "err")
    IN [k \in 1..Len(placed) |-> VenueOrder(placed[k].req)]

\* SelectTick; the pending list of the cycle that begins holds the orders
\* accepted in the cycle that has ended.
SelectTickConverge ==
    /\ run = "select"
    /\ more.lis1 = 0
    /\ tickerC = 1
    /\ rounds < MaxRounds
    /\ tickerC' = 0
    /\ BeginCheck
    /\ book' = book \o Accepted(calls)
    /\ rounds' = rounds + 1
    /\ UNCHANGED <<ctxDone, ticker, stopPc, stopAt, cfg, prev, book0, http, poll, more,
                   covVars, recVars, staleVars>>

InitConverge ==
    /\ cfg = ConfigRef
    /\ prev = NoPrev
    /\ book \in SeqsUpTo(ConvergeOrders, 2)
    /\ book0 = book
    /\ rounds = 0
    /\ http = NoHttp
    /\ poll = NoPoll
    /\ more = NoMore
    /\ CovOff
    /\ RecOff
    /\ CycleOff
    /\ SchedOff
    /\ StaleOff

NextConverge ==
    \/ (run = "new" /\ Start)
    \/ RunBegins
    \/ Tick
    \/ SelectTickConverge
    \/ GetLatestPositionsReturns([err |-> FALSE, rows |-> ConvergeSnapshot])
    \/ GetPendingAlgoOrdersReturns([err |-> FALSE, data |-> book])
    \/ \E reply \in ConvergeTickerReplies : GetTickerReturns(reply)
    \/ PlaceTPReturns("ok")
    \/ PlaceSLReturns("ok")
    \/ PlaceTPOriginalReturns("ok")
    \/ PlaceSLOriginalReturns("ok")

SpecConverge == InitConverge /\ [][NextConverge]_vars

(***************************************************************************)
(* Specification SpecRetry: cycle after cycle over one unchanging snapshot *)
(* against a venue that accepts or refuses each placement and never        *)
(* cancels or triggers an order; prev is the cycle before the running one. *)
(***************************************************************************)
RetrySnapshot ==
    << Pos("BTC-USDT-SWAP", "long", 2 * SizeOne, 100 * PxOne, "cross"),
       Pos("ETH-USDT-SWAP", "net", SizeOne, 100 * PxOne, "cross") >>

RetryPlaceReplies == {"ok", "err"}

\* SelectTick; the cycle that has ended is kept in prev, and the orders the
\* venue accepted in it are in the pending list of the cycle that begins.
SelectTickRetry ==
    /\ run = "select"
    /\ more.lis1 = 0
    /\ tickerC = 1
    /\ rounds < MaxRounds
    /\ tickerC' = 0
    /\ BeginCheck
    /\ prev' = CycleLog
    /\ book' = book \o Accepted(calls)
    /\ rounds' = rounds + 1
    /\ UNCHANGED <<ctxDone, ticker, stopPc, stopAt, cfg, book0, http, poll, more,
                   covVars, recVars, staleVars>>

InitRetry ==
    /\ cfg = ConfigRef
    /\ prev = NoPrev
    /\ book = <<>>
    /\ book0 = <<>>
    /\ rounds = 0
    /\ http = NoHttp
    /\ poll = NoPoll
    /\ more = NoMore
    /\ CovOff
    /\ RecOff
    /\ CycleOff
    /\ SchedOff
    /\ StaleOff

NextRetry ==
    \/ (run = "new" /\ Start)
    \/ RunBegins
    \/ Tick
    \/ SelectTickRetry
    \/ GetLatestPositionsReturns([err |-> FALSE, rows |-> RetrySnapshot])
    \/ GetPendingAlgoOrdersReturns([err |-> FALSE, data |-> book])
    \/ \E reply \in ConvergeTickerReplies : GetTickerReturns(reply)
    \/ \E reply \in RetryPlaceReplies : PlaceTPReturns(reply)
    \/ \E reply \in RetryPlaceReplies : PlaceSLReturns(reply)
    \/ \E reply \in RetryPlaceReplies : PlaceTPOriginalReturns(reply)
    \/ \E reply \in RetryPlaceReplies : PlaceSLOriginalReturns(reply)

SpecRetry == InitRetry /\ [][NextRetry]_vars

(***************************************************************************)
(* Specification SpecRequest: one call of okx.Client.doRequestWithBody     *)
(* under every retry limit up to MaxRetries, each attempt getting any of   *)
(* the responses of HttpResponses.  The backoff sleep, the sending of the  *)
(* request and the handling of its response are steps of their own.        *)
(***************************************************************************)
\* What an attempt can end with: httpClient.Do fails, reading the body
\* fails, or a response with the given status code has been read.
HttpResponses == {"netErr", "readErr", "429", "400", "500", "200"}

\* What the body of a response with status 200 can be: an accepted order
\* (code "0", sCode "0" or empty), code "0" with an empty data list, an
\* error code of the API, an error code of the order, or no JSON at all.
Bodies == {"ok", "noData", "apiErr", "sErr", "garbage"}

\* time.Duration(1<<uint(attempt-1)) * time.Second, in seconds
Backoff(attempt) == 2 ^ (attempt - 1)

HttpUnchanged ==
    UNCHANGED <<cfg, prev, book, book0, rounds, poll, more, covVars, recVars, cycleVars,
                schedVars, staleVars>>

\* time.Sleep(backoff) at the top of every iteration but the first
\* (client.go:135-139)
Sleep ==
    /\ http.pc = "sleep"
    /\ http' = [http EXCEPT !.pc = "send", !.waited = @ + Backoff(http.attempt)]
    /\ HttpUnchanged

\* The request is signed, built and handed to httpClient.Do
\* (client.go:141-161); the call has not returned yet.
Send ==
    /\ http.pc = "send"
    /\ http' = [http EXCEPT !.pc = "wait", !.took = FALSE]
    /\ HttpUnchanged

\* httpClient.Do returns and the code handles the outcome (client.go:161-205):
\* a 200 returns the body; everything else executes continue, which is the
\* loop's increment and condition, and after the last iteration the return
\* after the loop (client.go:208-209).
DoReturns(resp, body) ==
    /\ http.pc = "wait"
    /\ LET h == [http EXCEPT !.log = Append(@, resp)]
       IN IF resp = "200"
          THEN http' = [h EXCEPT !.pc = "done", !.result = "ok", !.body = body]
          ELSE IF http.attempt + 1 <= http.maxRetries
          THEN http' = [h EXCEPT !.attempt = @ + 1, !.pc = "sleep"]
          ELSE http' = [h EXCEPT !.attempt = @ + 1, !.pc = "done", !.result = "err"]
    /\ HttpUnchanged

InitRequest ==
    /\ cfg = ConfigRef
    /\ prev = NoPrev
    /\ book = <<>>
    /\ book0 = <<>>
    /\ rounds = 0
    /\ \E r \in 0..MaxRetries :
          http = [NoHttp EXCEPT !.pc = "send", !.maxRetries = r]
    /\ poll = NoPoll
    /\ more = NoMore
    /\ CovOff
    /\ RecOff
    /\ CycleOff
    /\ SchedOff
    /\ StaleOff

NextRequest ==
    \/ Sleep
    \/ Send
    \/ \E resp \in HttpResponses, body \in Bodies : DoReturns(resp, body)

SpecRequest == InitRequest /\ [][NextRequest]_vars

(***************************************************************************)
(* Specification SpecPost: one call of okx.Client.PlaceAlgoOrder, which    *)
(* is one call of doRequestWithBody("POST", ...) and the reading of the    *)
(* body it returns, together with the venue's side of each attempt.  The   *)
(* request body carries no client order id, so the venue takes every POST  *)
(* that reaches it as a new order.                                         *)
(***************************************************************************)
\* the order the body of the POST describes
PostedOrder == Ord("BTC-USDT-SWAP", "long", "conditional", "live", "2", "105", "")

\* The venue accepts the request in flight and creates the order, before
\* the client has read anything of the response.
VenueTakes ==
    /\ http.pc = "wait"
    /\ ~http.took
    /\ http' = [http EXCEPT !.took = TRUE]
    /\ book' = Append(book, PostedOrder)
    /\ UNCHANGED <<cfg, prev, book0, rounds, poll, more, covVars, recVars, cycleVars,
                   schedVars, staleVars>>

\* What the client can read after what the venue did with the request: a
\* transport failure, a failed read of the body and a 5xx status can each
\* follow the acceptance of the request or not; 429 and 400 are rejections;
\* a 200 says in its body whether the order was accepted.
Answers(took, resp, body) ==
    /\ resp \in {"429", "400"} => ~took
    /\ resp = "200" =>
          /\ body = "ok" => took
          /\ body \in {"apiErr", "sErr"} => ~took

\* DoReturns for an answer the venue can give
PostReturns(resp, body) ==
    /\ Answers(http.took, resp, body)
    /\ DoReturns(resp, body)

\* What PlaceAlgoOrder returns (client.go:355-375): the error of
\* doRequestWithBody; else an error if the body does not parse, if its code
\* is not "0", or if its first data entry has an sCode other than "" and
\* "0"; else the response.
PlaceResult(h) ==
    IF h.result = "err" THEN "err:request"
    ELSE CASE h.body = "garbage" -> "err:parse"
           [] h.body = "apiErr" -> "err:api"
           [] h.body = "sErr" -> "err:order"
           [] OTHER -> "ok"

PlaceAlgoOrderReturns ==
    /\ http.pc = "done"
    /\ http' = [http EXCEPT !.pc = "returned", !.placed = PlaceResult(http)]
    /\ HttpUnchanged

InitPost == InitRequest

NextPost ==
    \/ Sleep
    \/ Send
    \/ VenueTakes
    \/ \E resp \in HttpResponses, body \in Bodies : PostReturns(resp, body)
    \/ PlaceAlgoOrderReturns

SpecPost == InitPost /\ [][NextPost]_vars

(***************************************************************************)
(* Specification SpecStale: the positions table written by the monitor's   *)
(* position poll and read by the decision cycle, on one clock counting     *)
(* minutes.  The account opens positions once and closes them once.  A     *)
(* poll is the GetPositions call followed by one autocommitted INSERT per  *)
(* position, outside any transaction; the scheduler goroutine runs its     *)
(* SELECT whenever its own ticker fires.  A poll takes any time: minutes   *)
(* pass during the GetPositions call and during an INSERT, and the ticks   *)
(* that fire meanwhile wait in the ticker's channel of capacity 1.         *)
(***************************************************************************)
\* clock horizon
MaxTime == 12
\* capture timestamps told apart within one minute of the clock
MaxCaptures == 2
\* minutes that pass during polls in one behaviour
MaxSlow == 2
\* the minute by which the account has opened its positions, if it does
OpenBy == 1
\* the minute by which the account has closed the positions it opened
CloseBy == 4
\* polls that fail in one behaviour (GetPositions or a database write)
MaxPollErrs == 1
\* monitoring interval: 60 s
PollInterval == 1
\* tpsl check_interval: 300 s
CheckInterval == 5
\* documented threshold of the latest-snapshot read: 10 minutes
StalenessThreshold == 10

\* time.Now() of the k-th capture within minute t: timestamps are finer than
\* the clock, so that two polls never share one
Stamp(t, k) == t * MaxCaptures + k

\* the minute of a timestamp
MinuteOf(ts) == IF ts = NoTime THEN NoTime ELSE ts \div MaxCaptures

\* okx.Position as returned by GetPositions: pos and avgPx are strings
VenuePos(inst, posSide, pos, avgPx, mgnMode) ==
    [InstId |-> inst, PosSide |-> posSide, Pos |-> pos, AvgPx |-> avgPx, MgnMode |-> mgnMode]

\* what the venue reports for the account, in the venue's order: a one-way
\* position (posSide "") before a hedged long; and a list with a closed-out
\* row of size 0, a row without average price, the hedged long and a
\* one-way short, whose pos is negative
VenueLists ==
    { << VenuePos("ETH-USDT-SWAP", "", "1", "100", "cross"),
         VenuePos("BTC-USDT-SWAP", "long", "2", "100", "isolated") >>,
      << VenuePos("ETH-USDT-SWAP", "", "0", "100", "cross"),
         VenuePos("ETH-USDT-SWAP", "", "1", "", "cross"),
         VenuePos("BTC-USDT-SWAP", "long", "2", "100", "isolated"),
         VenuePos("ETH-USDT-SWAP", "", "-1", "100", "cross") >> }

\* monitor.go:267  strconv.ParseFloat(pos.Pos, 64)
ParsePos(str) ==
    IF str = "0" THEN [err |-> FALSE, val |-> 0]
    ELSE IF str = "-1" THEN [err |-> FALSE, val |-> 0 - SizeOne]
    ELSE ParseSz(str)

\* monitor.go:267-276: the rows of resp.Data the loop passes over
Skipped(v) ==
    \/ ParsePos(v.Pos).err
    \/ ParsePos(v.Pos).val = 0
    \/ ParseLast(v.AvgPx).err

\* monitor.go:295-311: posSide "" becomes "net"; MarginMode is not set
PositionModel(v) ==
    Pos(v.InstId, IF v.PosSide = "" THEN "net" ELSE v.PosSide,
        ParsePos(v.Pos).val, ParseLast(v.AvgPx).val, "")

\* models.Position.Validate (unnamed/part_001:23-50), called by InsertPosition
Validate(position) ==
    /\ position.Instrument # ""
    /\ position.PositionSide \in {"long", "short", "net"}
    /\ position.PositionSize >= 0
    /\ position.AveragePrice >= 0
    /\ position.Margin >= 0
    /\ position.Leverage >= 0

RECURSIVE MaxTimestamp(_)
\* SELECT MAX(timestamp) FROM positions
MaxTimestamp(rows) ==
    IF rows = <<>> THEN NoTime
    ELSE LET m == MaxTimestamp(Tail(rows)) IN
         IF Head(rows).timestamp > m THEN Head(rows).timestamp ELSE m

OfInstrument(rows, rank) == SelectSeq(rows, LAMBDA r : InstRank(r.Instrument) = rank)

RowsAt(rows, ts) ==
    LET latest == SelectSeq(rows, LAMBDA r : r.timestamp = ts)
        ordered == OfInstrument(latest, 1) \o OfInstrument(latest, 2)
    IN [i \in 1..Len(ordered) |->
          Pos(ordered[i].Instrument, ordered[i].PositionSide, ordered[i].PositionSize,
              ordered[i].AveragePrice, "")]

\* Storage.GetLatestPositions: the rows carrying the greatest timestamp,
\* ordered by instrument, whatever their age.
GetLatestPositions(rows) == RowsAt(rows, MaxTimestamp(rows))

\* Storage.InsertPosition: the columns written for one position
InsertPosition(position, ts) ==
    [timestamp |-> ts, Instrument |-> position.Instrument,
     PositionSide |-> position.PositionSide, PositionSize |-> position.PositionSize,
     AveragePrice |-> position.AveragePrice]

RECURSIVE DropSkipped(_)
\* the loop of fetchAndStorePositions up to the next row it does not skip
DropSkipped(rest) ==
    IF rest = <<>> THEN <<>>
    ELSE IF Skipped(Head(rest)) THEN DropSkipped(Tail(rest))
    ELSE rest

\* fetchAndStorePositions from the rows rest of resp.Data up to its next
\* database write: skipped rows are passed over; a row that fails Validate
\* makes InsertPosition, and with it the poll, return an error before any
\* write; with no row left the poll returns (monitor.go:265-324).
LoopTo(p, rest) ==
    LET r == DropSkipped(rest) IN
    IF r = <<>> \/ ~Validate(PositionModel(Head(r)))
    THEN [p EXCEPT !.pc = "idle", !.rest = <<>>]
    ELSE [p EXCEPT !.pc = "storing", !.rest = r]

MonitorUnchanged ==
    UNCHANGED <<cfg, prev, book, book0, rounds, http, more,
                covVars, recVars, cycleVars, schedVars>>

\* A minute passes, also while GetPositions or an INSERT of the poll is in
\* flight.  The monitor's ticker fires when its time has come: the tick
\* waits in ticker.C, or is dropped when one waits there already; the
\* ticker of a monitor that has returned is stopped (monitor.go:70-75).  An
\* idle loop takes a waiting tick, and the scheduler reads when its time has
\* come, before the minute is over.
ClockTick ==
    /\ now < MaxTime
    /\ nextCheck > now
    /\ ~(poll.pc = "idle" /\ poll.tick)
    /\ held # <<>> => now < CloseBy
    /\ poll.pc \in {"fetching", "storing"} => poll.span < MaxSlow
    /\ now' = now + 1
    /\ LET p == [poll EXCEPT !.caps = 0,
                             !.span = IF poll.pc \in {"fetching", "storing"} THEN @ + 1 ELSE @]
       IN IF nextPoll = now + 1 /\ poll.pc # "exited"
          THEN /\ nextPoll' = nextPoll + PollInterval
               /\ poll' = [p EXCEPT !.tick = TRUE]
          ELSE /\ nextPoll' = nextPoll
               /\ poll' = p
    /\ UNCHANGED <<held, table, nextCheck, pollErrs, lastRead, closedAt, seenAfterClose>>
    /\ MonitorUnchanged

\* the account opens positions on the venue
OpenPositions(list) ==
    /\ held = <<>>
    /\ closedAt = NoTime
    /\ now <= OpenBy
    /\ held' = list
    /\ UNCHANGED <<now, table, nextPoll, nextCheck, pollErrs, lastRead, closedAt,
                   seenAfterClose, cfg, auxVars, covVars, recVars, cycleVars, schedVars>>

\* the account closes all its positions on the venue
ClosePositions ==
    /\ held # <<>>
    /\ held' = <<>>
    /\ closedAt' = now
    /\ seenAfterClose' = 0
    /\ UNCHANGED <<now, table, nextPoll, nextCheck, pollErrs, lastRead,
                   cfg, auxVars, covVars, recVars, cycleVars, schedVars>>

\* Monitor.Start: case <-ticker.C: fetchAndStore(), up to the return of
\* fetchAndStoreBalances and the GetPositions call (monitor.go:73-76,
\* 215-225, 243-247).  The select may take the tick also when stopChan is
\* closed.
PollBegins ==
    /\ poll.pc = "idle"
    /\ poll.tick
    /\ poll' = [poll EXCEPT !.pc = "fetching", !.tick = FALSE]
    /\ UNCHANGED <<now, held, table, nextPoll, nextCheck, pollErrs, lastRead, closedAt,
                   seenAfterClose>>
    /\ MonitorUnchanged

\* The fetch returns: an error of the balance step or of GetPositions ends
\* the poll; so does an empty position list; otherwise the capture
\* timestamp is taken, at the time of the return, and the loop runs up to
\* its first database write (monitor.go:247-265).
GetPositionsReturns(reply) ==
    /\ poll.pc = "fetching"
    /\ IF reply = "err"
       THEN /\ pollErrs < MaxPollErrs
            /\ pollErrs' = pollErrs + 1
            /\ poll' = [poll EXCEPT !.pc = "idle"]
       ELSE /\ pollErrs' = pollErrs
            /\ poll.caps < MaxCaptures
            /\ poll' = IF held = <<>>
                       THEN [poll EXCEPT !.pc = "idle", !.rest = <<>>]
                       ELSE LoopTo([poll EXCEPT !.ts = Stamp(now, poll.caps),
                                                !.caps = @ + 1], held)
    /\ UNCHANGED <<now, held, table, nextPoll, nextCheck, lastRead, closedAt, seenAfterClose>>
    /\ MonitorUnchanged

\* The INSERT of InsertPosition returns (unnamed/part_008:180-198): on an
\* error the poll returns and the rows written before stay; otherwise the
\* loop runs on to its next write (monitor.go:313-324).
StoreRow(res) ==
    /\ poll.pc = "storing"
    /\ IF res = "err"
       THEN /\ pollErrs < MaxPollErrs
            /\ pollErrs' = pollErrs + 1
            /\ table' = table
            /\ poll' = [poll EXCEPT !.pc = "idle", !.rest = <<>>]
       ELSE /\ pollErrs' = pollErrs
            /\ table' = Append(table, InsertPosition(PositionModel(Head(poll.rest)), poll.ts))
            /\ poll' = LoopTo(poll, Tail(poll.rest))
    /\ UNCHANGED <<now, held, nextPoll, nextCheck, lastRead, closedAt, seenAfterClose>>
    /\ MonitorUnchanged

\* Monitor.Stop: close(m.stopChan) (monitor.go:94-97); closing the channel
\* a second time panics.
MonitorStop ==
    /\ poll.pc # "panic"
    /\ poll' = IF poll.stop THEN [poll EXCEPT !.pc = "panic"] ELSE [poll EXCEPT !.stop = TRUE]
    /\ UNCHANGED staleVars
    /\ MonitorUnchanged

\* Monitor.Start: case <-m.stopChan: return nil (monitor.go:85-88)
MonitorExits ==
    /\ poll.pc = "idle"
    /\ poll.stop
    /\ poll' = [poll EXCEPT !.pc = "exited"]
    /\ UNCHANGED staleVars
    /\ MonitorUnchanged

\* Scheduler tick: runCheck reads the latest snapshot.
CheckReads ==
    /\ nextCheck = now
    /\ nextCheck' = now + CheckInterval
    /\ LET rows == GetLatestPositions(table) IN
         /\ lastRead' = [called |-> TRUE, at |-> now, latest |-> MaxTimestamp(table), rows |-> rows]
         /\ seenAfterClose' = IF closedAt # NoTime /\ rows # <<>>
                              THEN seenAfterClose + 1 ELSE seenAfterClose
    /\ UNCHANGED <<now, held, table, nextPoll, pollErrs, closedAt,
                   cfg, auxVars, covVars, recVars, cycleVars, schedVars>>

\* Monitor.Start after its health check (monitor.go:61-71)
InitStale ==
    /\ cfg = ConfigRef
    /\ now = 0
    /\ held = <<>>
    /\ table = <<>>
    /\ nextPoll = PollInterval
    /\ nextCheck \in 0..(CheckInterval - 1)
    /\ pollErrs = 0
    /\ lastRead = NoRead
    /\ closedAt = NoTime
    /\ seenAfterClose = 0
    /\ CovOff
    /\ RecOff
    /\ CycleOff
    /\ SchedOff
    /\ AuxOff

NextStale ==
    \/ ClockTick
    \/ \E list \in VenueLists : OpenPositions(list)
    \/ ClosePositions
    \/ PollBegins
    \/ \E reply \in {"ok", "err"} : GetPositionsReturns(reply)
    \/ \E res \in {"ok", "err"} : StoreRow(res)
    \/ (~poll.stop /\ MonitorStop)
    \/ MonitorExits
    \/ CheckReads

SpecStale == InitStale /\ [][NextStale]_vars

(***************************************************************************)
(* Claims                                                                  *)
(***************************************************************************)

\* C3: for every direction, calculated target pair and current price, the
\* reconciled prices satisfy the venue constraint relative to the current
\* price: long => TP > current and SL < current; short => TP < current and
\* SL > current.
C3_VenueConstraint ==
    recOut.done =>
        IF isLongPosition(recPos)
        THEN recOut.adj.TpPrice > recCur /\ recOut.adj.SlPrice < recCur
        ELSE recOut.adj.TpPrice < recCur /\ recOut.adj.SlPrice > recCur

\* C3 witness: a leg whose target the market has already passed was reconciled.
C3_Witness ==
    /\ recOut.done
    /\ ~isLongPosition(recPos)
    /\ recCur >= recOut.targets.SlPrice
    /\ recOut.adj.SlPrice > recCur

\* The matching orders of a position that carry a TP (SL) trigger, by index.
MatchingTp(position, orders) ==
    { i \in 1..Len(orders) : matchesPosition(orders[i], position) /\ hasTp(orders[i]) }
MatchingSl(position, orders) ==
    { i \in 1..Len(orders) : matchesPosition(orders[i], position) /\ hasSl(orders[i]) }

\* Largest parseable size among the orders with index in I (0 when none).
LargestSize(orders, I) ==
    LET sizes == { ParseSz(orders[i].Sz).val : i \in { j \in I : ~ParseSz(orders[j].Sz).err } }
    IN IF sizes = {} THEN 0 ELSE CHOOSE m \in sizes : \A x \in sizes : x <= m

\* C4: a position that lacks a matching live order of at least one kind has
\* covered size 0 and uncovered size equal to its full size.
C4_OneKindMissing ==
    (covOut.done /\ (MatchingTp(covPos, covOrders) = {} \/ MatchingSl(covPos, covOrders) = {}))
        => (covOut.r.coveredSize = 0 /\ covOut.r.uncoveredSize = covPos.PositionSize)

\* C4 witness: only TP orders match, of a size that would cover the position.
C4_Witness ==
    /\ covOut.done
    /\ MatchingSl(covPos, covOrders) = {}
    /\ \E i \in MatchingTp(covPos, covOrders) :
          ~ParseSz(covOrders[i].Sz).err /\ ParseSz(covOrders[i].Sz).val >= covPos.PositionSize
    /\ covOut.r.uncoveredSize = covPos.PositionSize

\* C5: uncovered = max(0, size - covered), with covered = min(maxTp, maxSl)
\* when both kinds are present, maxTp / maxSl being the largest single
\* matching order size of each kind (never a sum).
C5_MinOfMaxima ==
    covOut.done =>
        LET maxTp == LargestSize(covOrders, MatchingTp(covPos, covOrders))
            maxSl == LargestSize(covOrders, MatchingSl(covPos, covOrders))
            covered == IF MatchingTp(covPos, covOrders) # {} /\ MatchingSl(covPos, covOrders) # {}
                       THEN (IF maxTp < maxSl THEN maxTp ELSE maxSl) ELSE 0
            diff == covPos.PositionSize - covered
        IN /\ covOut.r.coveredSize = covered
           /\ covOut.r.uncoveredSize = (IF diff < 0 THEN 0 ELSE diff)

\* C5 witness: two TP orders and two SL orders, all of size 1.0, against a
\* position of size 2.0: covered is 1.0 (not 2.0), uncovered is 1.0.
C5_Witness ==
    /\ covOut.done
    /\ covPos.PositionSize = 2 * SizeOne
    /\ Cardinality(MatchingTp(covPos, covOrders)) >= 2
    /\ covOut.r.maxTpSize = SizeOne
    /\ covOut.r.maxSlSize = SizeOne
    /\ covOut.r.coveredSize = SizeOne
    /\ covOut.r.uncoveredSize = SizeOne

\* C1: when the TP placement of a position fails, the SL placement of the
\* same position is still attempted in the same cycle (both placement paths).
C1_SLAttemptedAfterTPFailure ==
    \A i \in 1..Len(outcomes) :
        outcomes[i].tp = "failed" => outcomes[i].sl # "none"

\* Positions of the cycle whose outcome satisfies a condition.
PlacedBoth == { i \in 1..Len(outcomes) : outcomes[i].tp = "placed" /\ outcomes[i].sl = "placed" }
Failures == { i \in 1..Len(outcomes) : outcomes[i].result \in {"failed", "calcFailed"} }

\* C2: a position counts as success (OrdersPlaced) only if both its TP and
\* its SL order were accepted in this cycle; TP accepted followed by SL
\* failed is a failure (PlacementFailures), never a success.
C2_SuccessNeedsBothLegs ==
    /\ \A i \in 1..Len(outcomes) :
         /\ outcomes[i].result = "placed" => (outcomes[i].tp = "placed" /\ outcomes[i].sl = "placed")
         /\ (outcomes[i].tp = "placed" /\ outcomes[i].sl = "failed") => outcomes[i].result = "failed"
    /\ summary.OrdersPlaced = Cardinality(PlacedBoth)
    /\ summary.PlacementFailures = Cardinality(Failures)

\* C2 witness: a cycle in which one position had its TP accepted and its SL
\* refused, and another had both accepted.
C2_Witness ==
    /\ \E i \in 1..Len(outcomes) :
         outcomes[i].tp = "placed" /\ outcomes[i].sl = "failed" /\ outcomes[i].result = "failed"
    /\ summary.OrdersPlaced = 1
    /\ summary.PlacementFailures = 1

\* C6: if processing one position panics, the remaining positions of the
\* snapshot are still processed in the same cycle.
C6_PanicDoesNotEndCycle ==
    (pc = "idle" /\ \E i \in 1..Len(outcomes) : outcomes[i].result = "panic")
        => Len(outcomes) = Len(positions)

NoPanic == \A i \in 1..Len(outcomes) : outcomes[i].result # "panic"

\* C7: if target calculation or placement fails for one position, every
\* later position of the snapshot is still analysed and, if uncovered, gets
\* its own placement attempt in the same cycle.
C7_FailureIsLocal ==
    \A i \in 1..Len(outcomes) :
        outcomes[i].result \in {"failed", "calcFailed"} =>
            /\ (pc # "idle") => (idx > i /\ idx <= Len(positions))
            /\ (pc = "idle" /\ NoPanic) => Len(outcomes) = Len(positions)
            /\ \A j \in (i + 1)..Len(outcomes) :
                 /\ outcomes[j].class # "none"
                 /\ (/\ analyzeCoverage(positions[j], algoOrders) > Epsilon
                     /\ ~calculateTPSLPrices(positions[j]).err
                     /\ outcomes[j].result # "panic")
                    => outcomes[j].tp # "none"

\* C7 witness: the first position failed at placement, the second one was
\* analysed and got both legs placed in the same cycle.
C7_Witness ==
    /\ pc = "idle"
    /\ Len(outcomes) = 2
    /\ outcomes[1].result = "failed"
    /\ outcomes[2].result = "placed"

\* C10: Stop does not return until the in-flight cycle has run to
\* completion: it returns only after the run goroutine has exited, the
\* goroutine exits only from its select between cycles, and a cycle ends
\* only by finishing the whole snapshot or by a cycle-level error or panic,
\* never because of the cancellation.
C10_StopWaitsForCycle ==
    /\ [](stopPc = "returned" => (run = "done" /\ pc = "idle"))
    /\ [][/\ (run' = "done" /\ run # "done") => (run = "select" /\ pc = "idle")
          /\ (pc # "idle" /\ pc' = "idle") =>
                \/ ended' \in {"storageErr", "pendingErr", "panic"}
                \/ (ended' = "summary" /\ Len(outcomes') = Len(positions'))
          /\ (pc \in {"tp", "tpOrig"} /\ ctxDone) =>
                (pc' \in {pc, "sl", "slOrig"} \/ outcomes'[Len(outcomes')].tp = "failed"
                 \/ ended' = "panic")]_vars

\* C10 witness: Stop was called between the TP and the SL leg of a position,
\* and returned after a cycle that processed the whole snapshot.
C10_Witness ==
    /\ stopPc = "returned"
    /\ stopAt \in {"sl", "slOrig"}
    /\ ended = "summary"
    /\ Len(positions) >= 2
    /\ Len(outcomes) = Len(positions)

\* C8: the latest-snapshot read returns an empty list when no snapshot
\* exists or when the latest snapshot is older than the staleness threshold,
\* and the snapshot's positions when its age is within the threshold.
C8_StaleSnapshotReadsEmpty ==
    lastRead.called =>
        IF lastRead.latest = NoTime
              \/ lastRead.at - MinuteOf(lastRead.latest) > StalenessThreshold
        THEN lastRead.rows = <<>>
        ELSE /\ lastRead.rows # <<>>
             /\ \A i \in 1..Len(lastRead.rows) :
                   \E j \in 1..Len(RowsAt(table, lastRead.latest)) :
                       lastRead.rows[i] = RowsAt(table, lastRead.latest)[j]

\* C9: positions closed at time T are seen by at most one decision cycle
\* after T (the threshold is 2 x max(PollInterval, CheckInterval) and the
\* poller writes nothing while the account is empty).
C9_SeenInAtMostOneCycle ==
    (closedAt # NoTime /\ StalenessThreshold >= 2 * CheckInterval /\ CheckInterval >= PollInterval)
        => seenAfterClose <= 1

\* The calls of the cycle made for position i with operation op, by index.
CallsFor(i, op) == { k \in 1..Len(calls) : calls[k].idx = i /\ calls[k].op = op }

\* The price fetch for position i returned without a usable price.
TickerFailed(i) ==
    \E k \in CallsFor(i, "GetTicker") :
        /\ calls[k].kind # "panic"
        /\ getCurrentMarketPrice([kind |-> calls[k].kind, last |-> calls[k].last]).err

\* C11: when the current price cannot be obtained for a position (call
\* failed, no data, unparseable price), placement is still issued for it
\* with the calculated, unreconciled targets as trigger prices, and the
\* cycle goes on.
C11_DegradedPlacement ==
    \A i \in 1..Len(positions) :
        TickerFailed(i) =>
            LET t == calculateTPSLPrices(positions[i]) IN
            /\ \A k \in CallsFor(i, "PlaceAlgoOrder") :
                 \/ calls[k].req.TpTriggerPx = Field(formatPx(t.TpPrice))
                 \/ calls[k].req.SlTriggerPx = Field(formatPx(t.SlPrice))
            /\ IF i <= Len(outcomes)
               THEN /\ outcomes[i].path = "original"
                    /\ \E k \in CallsFor(i, "PlaceAlgoOrder") :
                         calls[k].req.TpTriggerPx = Field(formatPx(t.TpPrice))
                    /\ outcomes[i].tp = "placed" =>
                         \E k \in CallsFor(i, "PlaceAlgoOrder") :
                             calls[k].req.SlTriggerPx = Field(formatPx(t.SlPrice))
               ELSE i = idx /\ pc \in {"tpOrig", "slOrig"}
            /\ (pc = "idle" /\ NoPanic) => Len(outcomes) = Len(positions)

\* C11 witness: the price of the first position came back unparseable, both
\* legs were placed with the calculated targets, and the second position was
\* processed in the same cycle.
C11_Witness ==
    /\ pc = "idle"
    /\ Len(outcomes) = 2
    /\ \E k \in CallsFor(1, "GetTicker") : calls[k].kind = "data" /\ calls[k].last = "abc"
    /\ outcomes[1].path = "original"
    /\ outcomes[1].result = "placed"
    /\ outcomes[2].tp # "none"

\* C12: the reconciler never marks a leg as skipped: for every position,
\* target pair and current price skipTP and skipSL are both false, also when
\* the current price has reached or passed the SL or the TP target.
C12_NeverSkips ==
    recOut.done => (~recOut.adj.skipTP /\ ~recOut.adj.skipSL)

\* C12 witness: the reconciler ran for a long position whose SL target the
\* price has passed, and for which the SL is replaced, not skipped.
C12_Witness ==
    /\ recOut.done
    /\ isLongPosition(recPos)
    /\ recCur <= recOut.targets.SlPrice
    /\ ~recOut.adj.skipSL
    /\ recOut.adj.SlPrice = Below(recCur)

\* A leg that must lie above (below) the current price c: the target t when
\* it is strictly above (below) c, else c x 1.001 (c x 0.999).
LegAbove(t, c) == IF t > c THEN t ELSE c + c \div 1000
LegBelow(t, c) == IF t < c THEN t ELSE c - c \div 1000

\* C13: for each leg independently, the reconciler returns the calculated
\* target unchanged when it lies strictly on the venue-required side of the
\* current price, and otherwise current x 1.001 for a leg that must be above
\* (long TP, short SL) or current x 0.999 for a leg that must be below (long
\* SL, short TP).
C13_LegByLeg ==
    recOut.done =>
        IF isLongPosition(recPos)
        THEN /\ recOut.adj.TpPrice = LegAbove(recOut.targets.TpPrice, recCur)
             /\ recOut.adj.SlPrice = LegBelow(recOut.targets.SlPrice, recCur)
        ELSE /\ recOut.adj.TpPrice = LegBelow(recOut.targets.TpPrice, recCur)
             /\ recOut.adj.SlPrice = LegAbove(recOut.targets.SlPrice, recCur)

\* C13 witness: entry 100, long, raw SL 99 and TP 105, current price 106:
\* adjusted TP = 106.106, SL unchanged = 99.
C13_Witness ==
    /\ recOut.done
    /\ recPos.PositionSide = "long"
    /\ recPos.AveragePrice = 100 * PxOne
    /\ recCur = 106 * PxOne
    /\ recOut.adj.TpPrice = 106 * PxOne + 106
    /\ recOut.adj.SlPrice = 99 * PxOne

\* The calls of the cycle with operation op, by index.
CallsOf(op) == { k \in 1..Len(calls) : calls[k].op = op }

\* The placement requests made for position i that carry a TP (SL) trigger.
TpRequests(i) == { k \in CallsFor(i, "PlaceAlgoOrder") : calls[k].req.TpTriggerPx.set }
SlRequests(i) == { k \in CallsFor(i, "PlaceAlgoOrder") : calls[k].req.SlTriggerPx.set }

\* C14: in one cycle over a non-empty snapshot the pending orders are
\* fetched exactly once and before any other gateway call, the last price at
\* most once per position, and at most one TP request and one SL request are
\* placed per position; over an empty snapshot no gateway call is made.
C14_CallBudget ==
    /\ positions = <<>> => calls = <<>>
    /\ Cardinality(CallsOf("GetPendingAlgoOrders")) <= 1
    /\ calls # <<>> => calls[1].op = "GetPendingAlgoOrders"
    /\ (positions # <<>> /\ pc # "pending") => Cardinality(CallsOf("GetPendingAlgoOrders")) = 1
    /\ \A k \in 1..Len(calls) :
         calls[k].op # "GetPendingAlgoOrders" => calls[k].idx \in 1..Len(positions)
    /\ \A i \in 1..Len(positions) :
         /\ Cardinality(CallsFor(i, "GetTicker")) <= 1
         /\ Cardinality(CallsFor(i, "PlaceAlgoOrder")) <= 2
         /\ Cardinality(TpRequests(i)) <= 1
         /\ Cardinality(SlRequests(i)) <= 1

\* C14 witness: a finished cycle over two positions in which the SL of the
\* first was refused: one fetch of the pending orders, then for each
\* position one price fetch, one TP request and one SL request.
C14_Witness ==
    /\ pc = "idle"
    /\ ended = "summary"
    /\ Len(positions) = 2
    /\ Len(calls) = 7
    /\ calls[1].op = "GetPendingAlgoOrders"
    /\ outcomes[1].sl = "failed"
    /\ Cardinality(SlRequests(1)) = 1
    /\ Cardinality(TpRequests(2)) = 1

\* A request that carries a TP trigger only / an SL trigger only.
OnlyTp(r) ==
    /\ r.TpTriggerPx.set /\ r.TpTriggerPx.val > 0
    /\ ~r.SlTriggerPx.set /\ r.SlOrdPx = "" /\ r.SlTriggerPxType = ""
OnlySl(r) ==
    /\ r.SlTriggerPx.set /\ r.SlTriggerPx.val > 0
    /\ ~r.TpTriggerPx.set /\ r.TpOrdPx = "" /\ r.TpTriggerPxType = ""

\* C15: every order request submitted carries exactly one trigger: a TP
\* request has a TP trigger price and empty SL fields, an SL request has an
\* SL trigger price and empty TP fields; none carries both or neither.
C15_OneTriggerPerRequest ==
    /\ \A k \in CallsOf("PlaceAlgoOrder") : OnlyTp(calls[k].req) \/ OnlySl(calls[k].req)
    /\ pc \in {"tp", "tpOrig"} => OnlyTp(cur.req)
    /\ pc \in {"sl", "slOrig"} => OnlySl(cur.req)

\* C15 witness: a TP request and an SL request were both submitted for one
\* position.
C15_Witness ==
    \E i \in 1..Len(outcomes) :
        /\ outcomes[i].result = "placed"
        /\ \E k \in TpRequests(i) : OnlyTp(calls[k].req)
        /\ \E k \in SlRequests(i) : OnlySl(calls[k].req)

\* Covered size of a position, from the sets of its matching orders.
CoveredBySets(position, orders) ==
    LET maxTp == LargestSize(orders, MatchingTp(position, orders))
        maxSl == LargestSize(orders, MatchingSl(position, orders))
    IN IF MatchingTp(position, orders) # {} /\ MatchingSl(position, orders) # {}
       THEN (IF maxTp < maxSl THEN maxTp ELSE maxSl) ELSE 0

\* C16: whenever protection is placed for a position, the TP request and
\* the SL request both have size position.size - covered, so that no
\* submitted order is larger than the position.
C16_RequestsSizedUncovered ==
    \A k \in CallsOf("PlaceAlgoOrder") :
        LET position == positions[calls[k].idx] IN
        /\ calls[k].req.Sz = Field(position.PositionSize - CoveredBySets(position, algoOrders))
        /\ calls[k].req.Sz.val > 0
        /\ calls[k].req.Sz.val <= position.PositionSize

\* C16 witness: a position of size 2.0 with one live TP of 1.0 and one live
\* SL of 1.0 got a new TP and a new SL request of size 1.0 each.
C16_Witness ==
    \E i \in 1..Len(outcomes) :
        /\ outcomes[i].result = "placed"
        /\ positions[i].PositionSize = 2 * SizeOne
        /\ CoveredBySets(positions[i], algoOrders) = SizeOne
        /\ \E k \in TpRequests(i) : calls[k].req.Sz = Field(SizeOne)
        /\ \E k \in SlRequests(i) : calls[k].req.Sz = Field(SizeOne)

\* An order that can count for a position: same instrument, same side,
\* conditional kind, live state.
Relevant(order, position) ==
    /\ order.InstId = position.Instrument
    /\ order.PosSide = position.PositionSide
    /\ order.OrdType = "conditional"
    /\ order.State = "live"

\* C17: the coverage of a position is unaffected by pending orders that
\* differ from it in instrument or side, are not conditional, or are not
\* live: the pending list and the list with those orders removed give the
\* same covered and uncovered size.
C17_IrrelevantOrdersIgnored ==
    covOut.done =>
        LET kept == SelectSeq(covOrders, LAMBDA o : Relevant(o, covPos))
            r == CoverageResult(covPos, kept)
        IN /\ covOut.r.coveredSize = r.coveredSize
           /\ covOut.r.uncoveredSize = r.uncoveredSize
           /\ covOut.r.coveredSize = CoveredBySets(covPos, kept)

\* C17 witness: a live SL order of size 2.0 together with a canceled TP
\* order, an order of another kind and an order of the other side, none of
\* which completes the pair: the position stays uncovered.
C17_Witness ==
    /\ covOut.done
    /\ covPos.PositionSide = "long"
    /\ Len(covOrders) = 3
    /\ \E i \in 1..3 : Relevant(covOrders[i], covPos) /\ hasSl(covOrders[i])
    /\ \E i \in 1..3 : covOrders[i].State = "canceled" /\ hasTp(covOrders[i])
    /\ \E i \in 1..3 : covOrders[i].PosSide = "short"
    /\ covOut.r.coveredSize = 0
    /\ covOut.r.uncoveredSize = covPos.PositionSize

\* The last cycle ended at cycle level: snapshot read error, pending-order
\* fetch error, or panic.
CycleFailed == pc = "idle" /\ ended \in {"storageErr", "pendingErr", "panic"}

\* C18: a cycle that fails at cycle level ends only that cycle: the run
\* goroutine is back in its select with the ticker running, and the next
\* tick it receives starts a new cycle.
C18_FailedCycleEndsAlone ==
    /\ [](CycleFailed => (run = "select" /\ ticker = "on" /\ ~ctxDone))
    /\ []((CycleFailed /\ tickerC = 1) => ENABLED SelectTick)
    /\ [][(CycleFailed /\ tickerC = 1 /\ run' # run)
            => (run' = "check" /\ pc' = "storage" /\ ended' = "none" /\ tickerC' = 0)]_vars

\* C18 witness: a cycle ended by a panic, the goroutine waits in its select
\* and a tick is buffered for it.
C18_Witness ==
    /\ CycleFailed
    /\ ended = "panic"
    /\ run = "select"
    /\ tickerC = 1

\* The distances and prices of a position as the claims state them.
SlDistanceOf(position) == (position.AveragePrice * cfg.VolatilityPct) \div VolPctDen
TpDistanceOf(position) == SlDistanceOf(position) * cfg.ProfitLossRatio
Upward(position) ==
    position.PositionSide = "long" \/ (position.PositionSide = "net" /\ position.PositionSize > 0)
SlOf(position) ==
    IF Upward(position) THEN position.AveragePrice - SlDistanceOf(position)
                        ELSE position.AveragePrice + SlDistanceOf(position)
TpOf(position) ==
    IF Upward(position) THEN position.AveragePrice + TpDistanceOf(position)
                        ELSE position.AveragePrice - TpDistanceOf(position)
TargetsInvalid(position) ==
    position.AveragePrice <= 0 \/ SlOf(position) <= 0 \/ TpOf(position) <= 0

\* C19: target calculation fails exactly when the entry price is <= 0 or a
\* computed price is <= 0; for such a position no price is fetched and no
\* order is placed, a failure is recorded, and the cycle continues with the
\* next position.
C19_InvalidTargetsSkipPosition ==
    /\ summary.PlacementFailures = Cardinality(Failures)
    /\ \A i \in 1..Len(outcomes) :
         /\ outcomes[i].class # "full" =>
              (TargetsInvalid(positions[i]) <=> outcomes[i].result = "calcFailed")
         /\ outcomes[i].result = "calcFailed" =>
              /\ outcomes[i].class # "full"
              /\ CallsFor(i, "GetTicker") = {}
              /\ CallsFor(i, "PlaceAlgoOrder") = {}
              /\ outcomes[i].tp = "none" /\ outcomes[i].sl = "none"
              /\ pc # "idle" => idx > i
              /\ (pc = "idle" /\ NoPanic) => Len(outcomes) = Len(positions)

\* C19 witness: with volatility_pct 1.0 the SL of a long position with a
\* positive entry price comes out as 0: the position is recorded as failed
\* without any call, and the next position is processed.
C19_Witness ==
    /\ pc = "idle"
    /\ Len(outcomes) = 2
    /\ positions[1].PositionSide = "long"
    /\ positions[1].AveragePrice > 0
    /\ outcomes[1].result = "calcFailed"
    /\ outcomes[2].class # "none"
    /\ summary.PlacementFailures = 2
    /\ Len(calls) = 1

\* The position with the same entry price on the other side.
Mirror(position) ==
    [position EXCEPT !.PositionSide = IF Upward(position) THEN "short" ELSE "long"]

\* C20: for a valid position, long: SL = entry - entry x volatilityPct and
\* TP = entry + entry x volatilityPct x profitLossRatio; short: SL = entry +
\* entry x volatilityPct and TP = entry - entry x volatilityPct x
\* profitLossRatio; so a long and a short position with the same entry and
\* configuration have equal SL distances and tpLong - entry = entry - tpShort.
C20_TargetFormulas ==
    (recOut.done /\ ~recOut.targets.err) =>
        LET entry == recPos.AveragePrice
            d == (entry * cfg.VolatilityPct) \div VolPctDen
            other == calculateTPSLPrices(Mirror(recPos))
        IN /\ Upward(recPos) =>
                /\ recOut.targets.SlPrice = entry - d
                /\ recOut.targets.TpPrice = entry + d * cfg.ProfitLossRatio
           /\ ~Upward(recPos) =>
                /\ recOut.targets.SlPrice = entry + d
                /\ recOut.targets.TpPrice = entry - d * cfg.ProfitLossRatio
           /\ ~other.err =>
                /\ recOut.targets.SlPrice - entry = entry - other.SlPrice
                /\ recOut.targets.TpPrice - entry = entry - other.TpPrice

\* C20 witness: a short position entered at 100 under the reference
\* configuration: SL 101 and TP 95, against SL 99 and TP 105 for the long
\* position with the same entry.
C20_Witness ==
    /\ recOut.done
    /\ cfg = ConfigRef
    /\ recPos.PositionSide = "short"
    /\ recPos.AveragePrice = 100 * PxOne
    /\ recOut.targets.SlPrice = 101 * PxOne
    /\ recOut.targets.TpPrice = 95 * PxOne
    /\ calculateTPSLPrices(Mirror(recPos)).SlPrice = 99 * PxOne
    /\ calculateTPSLPrices(Mirror(recPos)).TpPrice = 105 * PxOne

(***************************************************************************)
(* C21: the trade mode of every take-profit and stop-loss request is the   *)
(* margin mode under which the venue holds the position (cross or          *)
(* isolated); cross is used only when the venue recorded no margin mode.   *)
(***************************************************************************)
PlaceCalls == CallsOf("PlaceAlgoOrder")

VenueTdMode(position) ==
    IF position.MarginMode = "" THEN "cross" ELSE position.MarginMode

C21_TradeModeIsVenueMarginMode ==
    \A k \in PlaceCalls :
        calls[k].req.TdMode = VenueTdMode(held[calls[k].idx])

(***************************************************************************)
(* C22: every order request the engine submits is reduce-only and is on    *)
(* the closing side of the position: sell when the position resolves as    *)
(* long, buy when it resolves as short.                                    *)
(***************************************************************************)
ClosingSide(position) == IF Upward(position) THEN "sell" ELSE "buy"

C22_ReduceOnlyClosingSide ==
    \A k \in PlaceCalls :
        /\ calls[k].req.ReduceOnly
        /\ calls[k].req.Side = ClosingSide(positions[calls[k].idx])

\* One cycle has submitted a sell request for a long position and a buy
\* request for a short one.
C22_Witness ==
    /\ \E k \in PlaceCalls :
          /\ positions[calls[k].idx].PositionSide = "long"
          /\ calls[k].req.Side = "sell" /\ calls[k].req.ReduceOnly
    /\ \E k \in PlaceCalls :
          /\ positions[calls[k].idx].PositionSide = "short"
          /\ calls[k].req.Side = "buy" /\ calls[k].req.ReduceOnly

(***************************************************************************)
(* C23: a position with side long is treated as long and one with side     *)
(* short as short whatever the sign of its size; a position with side net  *)
(* is treated as long iff its size is > 0 and as short otherwise.  The     *)
(* same resolution decides the targets (long: SL < entry < TP, short: TP < *)
(* entry < SL), the reconciled prices (long: SL < current < TP, short: TP  *)
(* < current < SL) and the closing side (long: sell, short: buy).          *)
(***************************************************************************)
C23_DirectionResolution ==
    recOut.done =>
        IF Upward(recPos)
        THEN /\ recOut.targets.SlPrice < recPos.AveragePrice
             /\ recPos.AveragePrice < recOut.targets.TpPrice
             /\ recOut.adj.SlPrice < recCur /\ recCur < recOut.adj.TpPrice
             /\ orderSide(recPos) = "sell"
        ELSE /\ recOut.targets.TpPrice < recPos.AveragePrice
             /\ recPos.AveragePrice < recOut.targets.SlPrice
             /\ recOut.adj.TpPrice < recCur /\ recCur < recOut.adj.SlPrice
             /\ orderSide(recPos) = "buy"

\* A net position of negative size went through calculation and
\* reconciliation as a short one.
C23_Witness ==
    /\ recOut.done
    /\ recPos.PositionSide = "net" /\ recPos.PositionSize < 0
    /\ recOut.targets.TpPrice < recPos.AveragePrice
    /\ recOut.adj.SlPrice > recCur
    /\ orderSide(recPos) = "buy"

(***************************************************************************)
(* C25: the calculated TP and SL prices do not depend on the leverage of   *)
(* the position, nor on its margin, unrealized PnL or margin mode: every   *)
(* position that differs from the given one only in those fields gets the  *)
(* same result.                                                            *)
(***************************************************************************)
C25_TargetsIgnoreAccountFields ==
    recOut.done =>
        \A a \in TargetAccounts :
            calculateTPSLPrices(WithAccount(recPos, a)) = recOut.targets

\* Targets were calculated for an isolated position at leverage 10 entered
\* at 100: SL 99 and TP 105, as for the cross position at leverage 1.
C25_Witness ==
    /\ recOut.done
    /\ cfg = ConfigRef
    /\ recPos.PositionSide = "long"
    /\ recPos.AveragePrice = 100 * PxOne
    /\ recPos.Leverage = 10 /\ recPos.MarginMode = "isolated"
    /\ recPos.Margin = 25 /\ recPos.UnrealizedPnL < 0
    /\ recOut.targets = [err |-> FALSE, TpPrice |-> 105 * PxOne, SlPrice |-> 99 * PxOne]

(***************************************************************************)
(* C24: what the engine does in a cycle is a function of the inputs of     *)
(* that cycle only (snapshot, pending orders, last prices, gateway         *)
(* replies, configuration).  Against any earlier cycle of the run: as long *)
(* as the snapshot and the replies received so far are the same, the next  *)
(* gateway request is the same, and a cycle that ends after the same       *)
(* replies has made the same number of calls.                              *)
(***************************************************************************)
RequestOf(c) == [op |-> c.op, idx |-> c.idx, req |-> c.req]
ReplyOf(c) == [kind |-> c.kind, last |-> c.last]

\* The inputs consumed before the k-th call are those of the earlier cycle.
SameInputsBefore(k) ==
    /\ positions = prev.positions
    /\ k - 1 <= Len(prev.calls)
    /\ k > 1 => algoOrders = prev.algoOrders
    /\ \A j \in 1..(k - 1) : ReplyOf(calls[j]) = ReplyOf(prev.calls[j])

CycleOver == pc = "idle" /\ run = "select"

C24_SameInputsSameRequests ==
    /\ \A k \in 1..Len(calls) :
          SameInputsBefore(k) =>
              /\ k <= Len(prev.calls)
              /\ RequestOf(calls[k]) = RequestOf(prev.calls[k])
    /\ (CycleOver /\ SameInputsBefore(Len(calls) + 1)) => Len(calls) = Len(prev.calls)

\* A cycle has ended that had the snapshot and all the replies of an earlier
\* cycle, with a price fetch and both placements for its first position.
C24_Witness ==
    /\ CycleOver
    /\ positions # <<>>
    /\ SameInputsBefore(Len(calls) + 1)
    /\ Len(calls) >= 4
    /\ calls[2].op = "GetTicker"
    /\ calls[3].op = "PlaceAlgoOrder" /\ calls[4].op = "PlaceAlgoOrder"
    /\ calls = prev.calls

(***************************************************************************)
(* C26: at most one decision cycle executes at any time.  A cycle begins   *)
(* only when none is running, so a tick that arrives during a cycle waits  *)
(* and starts no second one; and within a cycle the gateway calls are made *)
(* position by position: every call for one position has returned before   *)
(* a call for the next position is made.                                   *)
(***************************************************************************)
CycleRunning == run = "check"

\* A step that enters runCheck.
CycleBegins == pc # "storage" /\ pc' = "storage"

CallsInPositionOrder ==
    /\ \A j, k \in 1..Len(calls) : j < k => calls[j].idx <= calls[k].idx
    /\ \A k \in 1..Len(calls) : calls[k].idx <= idx

C26_OneCycleAtATime ==
    /\ [](CallsInPositionOrder)
    /\ [][(CycleRunning /\ tickerC = 1) => (~CycleBegins /\ tickerC' = 1)]_vars
    /\ [][CycleBegins => ~CycleRunning]_vars

\* A tick is waiting while the cycle, done with its first position, is in a
\* gateway call for the second.
C26_Witness ==
    /\ CycleRunning
    /\ tickerC = 1
    /\ pc = "sl"
    /\ idx = 2
    /\ \E k \in 1..Len(calls) : calls[k].idx = 1 /\ calls[k].op = "PlaceAlgoOrder"
    /\ \E k \in 1..Len(calls) : calls[k].idx = 2 /\ calls[k].op = "GetTicker"

(***************************************************************************)
(* C27: each matching pending order contributes to exactly one of the two  *)
(* running maxima, maxTpSize or maxSlSize, never to both.  An order        *)
(* contributes to a maximum when the loop counts it for that kind and      *)
(* compares its size with that maximum.                                    *)
(***************************************************************************)
ZeroAcc == [maxTpSize |-> 0, maxSlSize |-> 0, tpCount |-> 0, slCount |-> 0]

\* The number of maxima that one order, taken alone, contributes to.
Contributions(order, position) ==
    LET a == CoverageStep(ZeroAcc, order, position) IN a.tpCount + a.slCount

C27_OneMaximumPerOrder ==
    covOut.done =>
        \A i \in 1..Len(covOrders) :
            (matchesPosition(covOrders[i], covPos) /\ ~ParseSz(covOrders[i].Sz).err)
                => Contributions(covOrders[i], covPos) = 1

(***************************************************************************)
(* C28: the HTTP request routine makes another attempt only after a        *)
(* network error or an HTTP 429 response; after any other failure, such as *)
(* a status that is neither 200 nor 429, it returns to the caller without  *)
(* another attempt.                                                        *)
(***************************************************************************)
Recoverable == {"netErr", "readErr", "429"}

\* The routine went on to another attempt after its k-th response.
RetriedAfter(k) ==
    k < Len(http.log) \/ (k = Len(http.log) /\ http.pc \in {"sleep", "send", "wait"})

C28_RetryOnlyRecoverable ==
    \A k \in 1..Len(http.log) : RetriedAfter(k) => http.log[k] \in Recoverable

(***************************************************************************)
(* C29: for a position of fixed size and any initial matching live orders, *)
(* with every placement accepted and no order cancelled or triggered, the  *)
(* engine reaches within finitely many cycles a state in which the         *)
(* position is classified as fully covered and no further order is placed  *)
(* for it.  Stated for the horizon of the model: the cycle that follows    *)
(* MaxRounds earlier cycles takes every position as fully covered and      *)
(* places no order.                                                        *)
(***************************************************************************)
\* The cycle took every position as fully covered and sent no placement
\* request.
SettledCycle ==
    /\ \A i \in 1..Len(outcomes) : outcomes[i].class = "full"
    /\ PlaceCalls = {}

C29_CoveredWithinRounds == (rounds = MaxRounds /\ CycleOver) => SettledCycle

(***************************************************************************)
(* C30: a position that has no matching orders and is processed in a cycle *)
(* in which its TP and its SL placement are both accepted is, as long as   *)
(* the position and those orders stay as they are, classified as fully     *)
(* covered by every later cycle, which fetches no price and places no      *)
(* order for it.                                                           *)
(***************************************************************************)
OrderFor(order, position) ==
    order.InstId = position.Instrument /\ order.PosSide = position.PositionSide

\* The venue had no order for the position before the first cycle, and has
\* since accepted a TP order and an SL order for it.
ProtectedByEngine(position) ==
    /\ \A k \in 1..Len(book0) : ~OrderFor(book0[k], position)
    /\ \E k \in 1..Len(book) : OrderFor(book[k], position) /\ book[k].TpTriggerPx # ""
    /\ \E k \in 1..Len(book) : OrderFor(book[k], position) /\ book[k].SlTriggerPx # ""

C30_StaysCovered ==
    \A i \in 1..Len(positions) :
        (rounds >= 1 /\ ProtectedByEngine(positions[i])) =>
            /\ CallsFor(i, "GetTicker") = {}
            /\ CallsFor(i, "PlaceAlgoOrder") = {}
            /\ i <= Len(outcomes) =>
                   (outcomes[i].class = "full" /\ outcomes[i].result = "covered")

\* The third cycle has ended: the second position, protected by the first
\* cycle, was taken as fully covered again, with no gateway call for it.
C30_Witness ==
    /\ rounds = 2
    /\ CycleOver
    /\ Len(positions) = 2
    /\ ProtectedByEngine(positions[2])
    /\ Len(outcomes) = 2
    /\ outcomes[2].class = "full"
    /\ CallsFor(2, "GetTicker") = {} /\ CallsFor(2, "PlaceAlgoOrder") = {}

(***************************************************************************)
(* C31: after a cycle in which the TP order of a position was placed and   *)
(* its SL placement failed, the next cycle (position unchanged, that TP    *)
(* order still live) evaluates the position as not covered again and       *)
(* attempts an SL placement for it.                                        *)
(***************************************************************************)
\* In the cycle before, the TP of position i was accepted and its SL refused.
TpOnlyBefore(i) ==
    /\ \E k \in 1..Len(prev.calls) :
          /\ prev.calls[k].idx = i /\ prev.calls[k].op = "PlaceAlgoOrder"
          /\ prev.calls[k].req.TpTriggerPx.set /\ prev.calls[k].kind = "ok"
    /\ \E k \in 1..Len(prev.calls) :
          /\ prev.calls[k].idx = i /\ prev.calls[k].op = "PlaceAlgoOrder"
          /\ prev.calls[k].req.SlTriggerPx.set /\ prev.calls[k].kind = "err"

C31_SLRetriedNextCycle ==
    \A i \in 1..Len(positions) :
        (CycleOver /\ ended = "summary" /\ TpOnlyBefore(i)) =>
            /\ outcomes[i].class # "full"
            /\ SlRequests(i) # {}

(***************************************************************************)
(* C32: when fetching the pending orders fails in a cycle, the engine      *)
(* fetches no price and places no order for any position in that cycle:    *)
(* the failed fetch is the only gateway call and the cycle ends.           *)
(***************************************************************************)
PendingFailed ==
    \E k \in CallsOf("GetPendingAlgoOrders") : calls[k].kind = "err"

C32_PendingFailureStopsCycle ==
    PendingFailed =>
        /\ CallsOf("GetTicker") = {}
        /\ PlaceCalls = {}
        /\ Len(calls) = 1
        /\ pc = "idle"
        /\ ended = "pendingErr"
        /\ outcomes = <<>>

\* A cycle over two positions has ended at the failed fetch.
C32_Witness ==
    /\ PendingFailed
    /\ Len(positions) = 2
    /\ CycleOver
    /\ ended = "pendingErr"
    /\ CallsOf("GetTicker") = {} /\ PlaceCalls = {}

(***************************************************************************)
(* C33: once Stop has been called on the running scheduler (the context is *)
(* cancelled), no new decision cycle begins: only a cycle that was in      *)
(* flight at that moment runs to completion.                               *)
(***************************************************************************)
C33_NoCycleAfterStop ==
    [][(ctxDone /\ run # "new") => ~CycleBegins]_vars

(***************************************************************************)
(* C34: Scheduler.Stop eventually returns in every state in which it can   *)
(* be called (before Start, during a cycle, between cycles, after an       *)
(* earlier Stop), provided that any cycle in flight terminates.            *)
(***************************************************************************)
C34_StopEventuallyReturns == (stopPc = "cancelled") ~> (stopPc = "returned")

\* the rows one poll stores under its capture timestamp, the positions it
\* has not inserted yet included
RowsOfPoll ==
    LET todo == SelectSeq(poll.rest, LAMBDA v : ~Skipped(v)) IN
    RowsAt(table \o [i \in 1..Len(todo) |-> InsertPosition(PositionModel(todo[i]), poll.ts)],
           poll.ts)

\* C35: a decision cycle never reads part of a snapshot: the list returned
\* by GetLatestPositions holds all or none of the positions the monitor
\* poll stores under the capture timestamp of the rows read, also when the
\* poll and the cycle run concurrently.
C35_SnapshotReadWhole ==
    (lastRead.called /\ lastRead.latest = poll.ts)
        => lastRead.rows \in {<<>>, RowsOfPoll}

\* the class AnalyzeAndPlaceTPSL gives the position of a one-row snapshot
ClassOf(position, orders) ==
    Advance(<<position>>, orders, 1, ZeroSummary, <<>>)

\* a matching live order of the kind whose size reaches the position's size
\* up to the tolerance
CoversKind(order, position, kind) ==
    /\ matchesPosition(order, position)
    /\ IF kind = "tp" THEN hasTp(order) ELSE hasSl(order)
    /\ ~ParseSz(order.Sz).err
    /\ ParseSz(order.Sz).val >= position.PositionSize - Epsilon

\* C36: a position is classified fully covered, and so gets no placement
\* attempt, only if the pending list holds at least one matching live TP
\* order and one matching live SL order, each of a size of at least the
\* position's size less 0.000001; for every side and size of the position.
C36_FullyCoveredNeedsBothOrders ==
    (covOut.done /\ ClassOf(covPos, covOrders).summary.FullyCovered = 1)
        => /\ \E k \in 1..Len(covOrders) : CoversKind(covOrders[k], covPos, "tp")
           /\ \E k \in 1..Len(covOrders) : CoversKind(covOrders[k], covPos, "sl")

\* C37: one call of PlaceAlgoOrder creates at most one order at the venue,
\* also when the response to an attempt is lost, times out or comes back
\* with an HTTP error after the venue accepted the request.
C37_AtMostOneOrderPerCall == Len(book) <= 1

\* C38: whenever the target calculation succeeds, under a positive
\* volatility percentage and a positive profit-loss ratio, the targets are
\* ordered around the entry price: 0 < SL < entry < TP for a position
\* resolved as long, 0 < TP < entry < SL for a position resolved as short.
C38_TargetsOrderedAroundEntry ==
    (recOut.done /\ ~recOut.targets.err /\ cfg.VolatilityPct > 0 /\ cfg.ProfitLossRatio > 0) =>
        LET entry == recPos.AveragePrice
            sl == recOut.targets.SlPrice
            tp == recOut.targets.TpPrice
        IN IF isLongPosition(recPos)
           THEN 0 < sl /\ sl < entry /\ entry < tp
           ELSE 0 < tp /\ tp < entry /\ entry < sl

\* Targets were calculated for a short position entered at 20000 under
\* volatility 2% and ratio 2: SL 20400 above and TP 19200 below the entry.
C38_Witness ==
    /\ recOut.done
    /\ ~recOut.targets.err
    /\ cfg = [VolatilityPct |-> 2, ProfitLossRatio |-> 2]
    /\ recPos.PositionSide = "short"
    /\ recPos.AveragePrice = 20000 * PxOne
    /\ recOut.targets.SlPrice = 20400 * PxOne
    /\ recOut.targets.TpPrice = 19200 * PxOne

\* C39: at the end of every cycle that returns a summary, TotalChecked is
\* the number of positions of the snapshot and the sum of FullyCovered,
\* PartiallyCovered and NotCovered, and OrdersPlaced + PlacementFailures is
\* PartiallyCovered + NotCovered.
C39_SummaryAddsUp ==
    ended = "summary" =>
        /\ summary.TotalChecked = Len(positions)
        /\ summary.TotalChecked =
              summary.FullyCovered + summary.PartiallyCovered + summary.NotCovered
        /\ summary.OrdersPlaced + summary.PlacementFailures =
              summary.PartiallyCovered + summary.NotCovered

\* A cycle over two positions has returned its summary: one position partly
\* covered and one not covered, one of them placed, the other failed.
C39_Witness ==
    /\ ended = "summary"
    /\ Len(positions) = 2
    /\ summary.PartiallyCovered = 1
    /\ summary.NotCovered = 1
    /\ summary.OrdersPlaced = 1
    /\ summary.PlacementFailures = 1
    /\ \E i \in 1..2 : outcomes[i].tp = "placed" /\ outcomes[i].sl = "placed"

====
